---- MODULE Spec2Model ----
(***************************************************************************)
(* Machine & pallet engine of the parking backend.                         *)
(*                                                                         *)
(* One machine document (models/Machine.js) with its embedded pallets, the *)
(* pre('save') hook that rewrites pallet capacities and recounts the       *)
(* capacity block, the instance methods occupyPallet / releasePallet /     *)
(* releaseVehicle / setPalletMaintenance, and the MachineService wrappers  *)
(* that load the document, call the method and turn every throw into an    *)
(* error response.                                                         *)
(*                                                                         *)
(* Dates are abstracted to "set" / NULL; ObjectIds are small integers.     *)
(***************************************************************************)
EXTENDS Integers, Sequences, FiniteSets, TLC

VARIABLES machine, last, nSaves, inflight, batch,
          bookingDocs, customerDocs, clock, breq,
          paymentDocs, userDocs, siteDocs, machineDocs

vars == <<machine, last, nSaves, inflight, batch,
          bookingDocs, customerDocs, clock, breq,
          paymentDocs, userDocs, siteDocs, machineDocs>>

(* the membership payment ledger, the users, the sites and the machines   *)
(* of the sites                                                            *)
orgVars == <<paymentDocs, userDocs, siteDocs, machineDocs>>

(* the collections and the clock of the booking engine *)
bookVars == <<bookingDocs, customerDocs, clock, breq, orgVars>>

----------------------------------------------------------------------------
(* Bounds of the model *)

NumPallets == 2
MaxSaves == 3
MaxFillSaves == 8
NumWorkers == 2
MaxConcSaves == 3

(* Inputs of the requests *)

Bookings == {1, 2}
Plates == {"ka01", "KA02"}
(* (bookingId, vehicleNumber) of the occupy requests: each booking parks   *)
(* its own vehicle; a booking may be sent twice                            *)
OccupyInputs == {<<1, "ka01">>, <<2, "KA02">>}
(* position given by the caller: 0 = none, 7 = outside the schema's 1..6 *)
PositionHints == {0, 2, 7}
(* pallet numbers asked for: the rotary numbers and the first puzzle number *)
PalletKeys == (1..NumPallets) \cup {101}
MachineTypes == {"two-wheeler", "four-wheeler"}
ParkingTypes == {"rotary", "puzzle"}
StatusInputs == {"online", "offline"}

NULL == "null"
SET == "set"

----------------------------------------------------------------------------
(* utils/constants.js *)

AVAILABLE == "available"
OCCUPIED == "occupied"
MAINTENANCE == "maintenance"
ONLINE == "online"
OFFLINE == "offline"

(* String.prototype.toUpperCase on the plates of the model *)
toUpperCase(s) == IF s = "ka01" THEN "KA01" ELSE s

Max2(a, b) == IF a > b THEN a ELSE b
Min2(a, b) == IF a < b THEN a ELSE b

(* Array.prototype.find / findIndex: the first index of the set S of       *)
(* matching indices, 1-based; 0 stands for "no match"                      *)
firstIndex(S) ==
  IF S = {} THEN 0 ELSE CHOOSE i \in S : \A k \in S : i <= k

(* Array.prototype.splice(i, 1) *)
splice1(seq, i) == SubSeq(seq, 1, i - 1) \o SubSeq(seq, i + 1, Len(seq))

(* Array.prototype.slice(0, n) *)
slice0(seq, n) == SubSeq(seq, 1, Min2(n, Len(seq)))

(* sum of a sequence of numbers, from index i on *)
RECURSIVE SumSeq(_, _)
SumSeq(nums, i) ==
  IF i > Len(nums) THEN 0 ELSE nums[i] + SumSeq(nums, i + 1)

----------------------------------------------------------------------------
(* pre('save'): capacity per pallet from parking type and machine type *)

vehicleCapacityPerPallet(parkingType, machineType) ==
  IF parkingType = "puzzle"
  THEN (IF machineType = "two-wheeler" THEN 3 ELSE 1)
  ELSE (IF machineType = "two-wheeler" THEN 6 ELSE 1)

(* pre('save'): number of the i-th generated pallet *)
palletNumberAt_sequential(parkingType, i) == i

palletNumberAt(parkingType, i) ==
  IF parkingType = "puzzle"
  THEN (((i - 1) \div 4) + 1) * 100 + ((i - 1) % 4) + 1
  ELSE i

newPallet(number, V) ==
  [number |-> number,
   status |-> AVAILABLE,
   vehicleCapacity |-> V,
   currentOccupancy |-> 0,
   currentBookings |-> <<>>,
   occupiedSince |-> NULL]

(* pre('save'): pallets generated for a new machine without pallets *)
initPallets(parkingType, machineType, total) ==
  [i \in 1..total |->
     newPallet(palletNumberAt(parkingType, i),
               vehicleCapacityPerPallet(parkingType, machineType))]

(* pre('save'): rewrite of one pallet after a machineType/parkingType change *)
rewritePallet_keepCount(pallet, V) ==
  IF Len(pallet.currentBookings) > V
  THEN [pallet EXCEPT !.vehicleCapacity = V,
                      !.currentBookings = slice0(pallet.currentBookings, V)]
  ELSE [pallet EXCEPT !.vehicleCapacity = V]

rewritePallet(pallet, V) ==
  IF Len(pallet.currentBookings) > V
  THEN [pallet EXCEPT !.vehicleCapacity = V,
                      !.currentBookings = slice0(pallet.currentBookings, V),
                      !.currentOccupancy = Min2(pallet.currentOccupancy, V)]
  ELSE [pallet EXCEPT !.vehicleCapacity = V]

availableOf(pallet) ==
  IF pallet.status = AVAILABLE
  THEN pallet.vehicleCapacity - pallet.currentOccupancy ELSE 0

occupiedOf_anyStatus(pallet) == pallet.currentOccupancy

occupiedOf(pallet) ==
  IF pallet.status = OCCUPIED THEN pallet.currentOccupancy ELSE 0

maintenanceOf(pallet) == IF pallet.status = MAINTENANCE THEN 1 ELSE 0

(* pre('save'): recount of the capacity block; total is left alone *)
recountCapacity(capacity, pallets) ==
  IF Len(pallets) > 0
  THEN [total |-> capacity.total,
        available |->
          SumSeq([i \in DOMAIN pallets |-> availableOf(pallets[i])], 1),
        occupied |->
          SumSeq([i \in DOMAIN pallets |-> occupiedOf(pallets[i])], 1),
        maintenance |->
          SumSeq([i \in DOMAIN pallets |-> maintenanceOf(pallets[i])], 1)]
  ELSE capacity

(* pre('save') of an existing machine; typeModified is                     *)
(* isModified('machineType') || isModified('parkingType')                  *)
preSave(m, typeModified) ==
  LET V == vehicleCapacityPerPallet(m.parkingType, m.machineType)
      ps == IF typeModified
            THEN [i \in DOMAIN m.pallets |-> rewritePallet(m.pallets[i], V)]
            ELSE m.pallets
  IN [m EXCEPT !.pallets = ps,
               !.capacity = recountCapacity(m.capacity, ps)]

(* new Machine({...}) followed by save() *)
createMachine(machineType, parkingType, total) ==
  LET ps == initPallets(parkingType, machineType, total)
  IN [machineType |-> machineType,
      parkingType |-> parkingType,
      supportedVehicleTypes |-> {machineType},
      status |-> ONLINE,
      capacity |-> recountCapacity(
                     [total |-> total, available |-> total,
                      occupied |-> 0, maintenance |-> 0], ps),
      pallets |-> ps]

----------------------------------------------------------------------------
(* Instance methods of the machine document.  Each returns the error it    *)
(* throws ("ok" when none) and the document as save() persists it.         *)

(* this.pallets.find(p => p.number === palletNumber || ...) *)
findPallet(m, palletNumber) ==
  firstIndex({i \in DOMAIN m.pallets : m.pallets[i].number = palletNumber})

occupiedPositions(pallet) ==
  {pallet.currentBookings[j].position : j \in DOMAIN pallet.currentBookings}

(* for (let i = 1; i <= 6; i++) if (!occupiedPositions.includes(i)) ...;   *)
(* 0 stands for a position left null                                       *)
nextAvailablePosition_highest(pallet) ==
  LET free == (1..6) \ occupiedPositions(pallet)
  IN IF free = {} THEN 0
     ELSE CHOOSE i \in free : \A k \in free : i >= k

nextAvailablePosition(pallet) ==
  LET free == (1..6) \ occupiedPositions(pallet)
  IN IF free = {} THEN 0
     ELSE CHOOSE i \in free : \A k \in free : i <= k

(* position of the new occupant; 0 = none given *)
assignPosition(m, pallet, position) ==
  IF m.machineType = "two-wheeler"
  THEN (IF position = 0 THEN nextAvailablePosition(pallet) ELSE position)
  ELSE 1

(* pallet.currentOccupancy >= pallet.vehicleCapacity *)
palletIsFull_offByOne(pallet) ==
  pallet.currentOccupancy > pallet.vehicleCapacity

palletIsFull(pallet) ==
  pallet.currentOccupancy >= pallet.vehicleCapacity

(* pallet.currentBookings.some(b => b.position === position) *)
positionIsOccupied_never(pallet, position) == FALSE

positionIsOccupied(pallet, position) ==
  position \in occupiedPositions(pallet)

(* pallet status after an occupy *)
statusAfterOccupy(pallet, c) ==
  IF c >= pallet.vehicleCapacity THEN OCCUPIED ELSE pallet.status

occupyPallet(m, palletNumber, bookingId, vehicleNumber, position) ==
  LET i == findPallet(m, palletNumber)
  IN IF i = 0 THEN [error |-> "PalletNotFound", machine |-> m]
     ELSE
       LET pallet == m.pallets[i]
           pos == assignPosition(m, pallet, position)
           c == pallet.currentOccupancy + 1
       IN IF palletIsFull(pallet)
          THEN [error |-> "PalletFull", machine |-> m]
          ELSE IF m.machineType = "two-wheeler"
                  /\ positionIsOccupied(pallet, pos)
          THEN [error |-> "PositionTaken", machine |-> m]
          ELSE IF pos # 0 /\ pos \notin 1..6
          THEN [error |-> "ValidationError", machine |-> m]
          ELSE
            [error |-> "ok",
             machine |-> preSave(
               [m EXCEPT !.pallets[i] =
                  [pallet EXCEPT
                     !.currentBookings =
                        Append(@, [booking |-> bookingId,
                                   vehicleNumber |-> toUpperCase(vehicleNumber),
                                   position |-> pos]),
                     !.currentOccupancy = c,
                     !.status = statusAfterOccupy(pallet, c),
                     !.occupiedSince = IF c = 1 THEN SET ELSE @]],
               FALSE)]

(* pallet status and occupiedSince after a release *)
statusAfterRelease(pallet, c) ==
  IF c = 0 THEN AVAILABLE ELSE pallet.status

removeOccupant(m, i, bookingIndex) ==
  LET pallet == m.pallets[i]
      c == Max2(0, pallet.currentOccupancy - 1)
  IN preSave(
       [m EXCEPT !.pallets[i] =
          [pallet EXCEPT
             !.currentBookings = splice1(@, bookingIndex),
             !.currentOccupancy = c,
             !.status = statusAfterRelease(pallet, c),
             !.occupiedSince = IF c = 0 THEN NULL ELSE @]],
       FALSE)

releasePallet(m, palletNumber, bookingId) ==
  LET i == findPallet(m, palletNumber)
  IN IF i = 0 THEN [error |-> "PalletNotFound", machine |-> m]
     ELSE
       LET bookings == m.pallets[i].currentBookings
           bookingIndex ==
             firstIndex({j \in DOMAIN bookings :
                           bookings[j].booking = bookingId})
       IN IF bookingIndex = 0
          THEN [error |-> "OccupantNotFound", machine |-> m]
          ELSE [error |-> "ok", machine |-> removeOccupant(m, i, bookingIndex)]

releaseVehicle(m, palletNumber, vehicleNumber) ==
  LET i == findPallet(m, palletNumber)
  IN IF i = 0 THEN [error |-> "PalletNotFound", machine |-> m]
     ELSE
       LET bookings == m.pallets[i].currentBookings
           bookingIndex ==
             firstIndex({j \in DOMAIN bookings :
                           bookings[j].vehicleNumber
                             = toUpperCase(vehicleNumber)})
       IN IF bookingIndex = 0
          THEN [error |-> "OccupantNotFound", machine |-> m]
          ELSE [error |-> "ok", machine |-> removeOccupant(m, i, bookingIndex)]

setPalletMaintenance(m, palletNumber) ==
  LET i == findPallet(m, palletNumber)
  IN IF i = 0 THEN [error |-> "PalletNotFound", machine |-> m]
     ELSE [error |-> "ok",
           machine |-> preSave([m EXCEPT !.pallets[i].status = MAINTENANCE],
                               FALSE)]

(* MachineService.updateMachine: Object.assign(machine, updateData); save() *)
updateMachine(m, machineType, parkingType, status) ==
  preSave([m EXCEPT !.machineType = machineType,
                    !.parkingType = parkingType,
                    !.status = status],
          m.machineType # machineType \/ m.parkingType # parkingType)

----------------------------------------------------------------------------
(* MachineService: the method run on the document findById returned.       *)

serviceOccupyPallet_saveBeforeStatusCheck(m, number, booking, plate, hint) ==
  LET r == occupyPallet(m, number, booking, plate, hint)
  IN IF m.status # ONLINE
     THEN [error |-> "MachineOffline", machine |-> r.machine]
     ELSE r

serviceOccupyPallet(m, palletNumber, bookingId, vehicleNumber, position) ==
  IF m.status # ONLINE
  THEN [error |-> "MachineOffline", machine |-> m]
  ELSE occupyPallet(m, palletNumber, bookingId, vehicleNumber, position)

serviceReleasePallet(m, palletNumber, bookingId) ==
  releasePallet(m, palletNumber, bookingId)

serviceReleaseVehicle(m, palletNumber, vehicleNumber) ==
  releaseVehicle(m, palletNumber, vehicleNumber)

----------------------------------------------------------------------------
(* Requests.  Every request is one step: load, method, save.               *)

NoPallet == newPallet(0, 0)

NoRequest ==
  [op |-> "none", result |-> "ok", key |-> 0, booking |-> 0, plate |-> "",
   hint |-> 0, pre |-> NoPallet, removed |-> 0, statusCode |-> 200,
   vehicleType |-> "", siteId |-> 0, returned |-> FALSE]

occupantsOf(pallet) == Len(pallet.currentBookings)

totalOccupants(m) ==
  SumSeq([i \in DOMAIN m.pallets |-> occupantsOf(m.pallets[i])], 1)

(* What a request leaves behind: logger.info with the parameters on        *)
(* success, logger.error with the message alone on failure.  pre is the    *)
(* pallet as it was loaded by a successful request, removed the number of  *)
(* occupants the save took off the machine.                                *)
RequestOn(doc, op, key, booking, plate, hint, r) ==
  IF r.error = "ok"
  THEN [op |-> op, result |-> r.error, key |-> key, booking |-> booking,
        plate |-> plate, hint |-> hint,
        pre |-> IF findPallet(doc, key) = 0 THEN NoPallet
                ELSE doc.pallets[findPallet(doc, key)],
        removed |-> totalOccupants(doc) - totalOccupants(r.machine),
        statusCode |-> 200, vehicleType |-> "", siteId |-> 0,
        returned |-> FALSE]
  ELSE [op |-> op, result |-> r.error, key |-> key, booking |-> 0,
        plate |-> "", hint |-> 0, pre |-> NoPallet, removed |-> 0,
        statusCode |-> 400, vehicleType |-> "", siteId |-> 0,
        returned |-> FALSE]

Request(op, key, booking, plate, hint, r) ==
  RequestOn(machine, op, key, booking, plate, hint, r)

(* a worker with no request between its findById and its save *)
Idle ==
  [pc |-> "idle", op |-> "none", key |-> 0, booking |-> 0, plate |-> "",
   hint |-> 0, doc |-> <<>>, version |-> 0]

NoBatch == [base |-> <<>>, reqs |-> <<>>]

Workers == 1..NumWorkers

(* a Booking document that was never saved *)
NoBooking ==
  [stored |-> FALSE, status |-> "none", machineNumber |-> "",
   palletNumber |-> 0, vehicleNumber |-> "", customer |-> 0,
   customerName |-> <<>>, phoneNumber |-> "",
   otp |-> [code |-> "", generatedAt |-> 0, expiresAt |-> 0, isUsed |-> FALSE,
           usedAt |-> -1],
   payment |-> [amount |-> 0, method |-> NULL, status |-> "pending",
                paidAt |-> NULL],
   notes |-> <<>>, endTime |-> NULL, completedBy |-> NULL]

(* no refresh token: the field is null, or the request carries none *)
NoToken == [userId |-> 0, iat |-> 0]

(* What a request of the booking engine leaves behind: the operation, its *)
(* result, the booking and the OTP code it named, how many times it        *)
(* entered the pallet side-effect blocks and what the machine answered,    *)
(* and the booking as the request loaded it.                               *)
NoBookingRequest ==
  [op |-> "none", result |-> "ok", id |-> 0, code |-> "", phone |-> "",
   machineNumber |-> "", palletNumber |-> 0,
   occupies |-> 0, releases |-> 0, effect |-> "none", pre |-> NoBooking,
   amount |-> 0, reason |-> "", membershipNumber |-> 0, pin |-> 0,
   vehicleType |-> "", vehicleTypes |-> {}, user |-> 0, role |-> "",
   permissions |-> <<>>, force |-> FALSE,
   customerName |-> <<>>, customerNameUpdated |-> FALSE,
   seq |-> 0, status |-> 0, token |-> NoToken, presented |-> NoToken,
   held |-> {},
   passwordValid |-> FALSE]

(* empty collections, clock at 0 *)
EmptyStores ==
  /\ bookingDocs = <<>>
  /\ customerDocs = <<>>
  /\ clock = 0
  /\ breq = NoBookingRequest
  /\ paymentDocs = <<>>
  /\ userDocs = <<>>
  /\ siteDocs = <<>>
  /\ machineDocs = <<>>

Commit(op, key, booking, plate, hint, r) ==
  /\ machine' = r.machine
  /\ last' = Request(op, key, booking, plate, hint, r)
  /\ nSaves' = IF r.error = "ok" THEN nSaves + 1 ELSE nSaves
  /\ UNCHANGED <<inflight, batch>>
  /\ UNCHANGED bookVars

Init ==
  /\ \E t \in MachineTypes, k \in ParkingTypes :
       machine = createMachine(t, k, NumPallets)
  /\ last = NoRequest
  /\ nSaves = 0
  /\ inflight = [w \in Workers |-> Idle]
  /\ batch = NoBatch
  /\ EmptyStores

OccupyPallet ==
  \E key \in PalletKeys, bv \in OccupyInputs, h \in PositionHints :
    /\ nSaves < MaxSaves
    /\ Commit("occupy", key, bv[1], toUpperCase(bv[2]), h,
              serviceOccupyPallet(machine, key, bv[1], bv[2], h))

ReleasePalletByBooking ==
  \E key \in PalletKeys, b \in Bookings :
    /\ nSaves < MaxSaves
    /\ Commit("release", key, b, "", 0,
              serviceReleasePallet(machine, key, b))

ReleaseVehicle ==
  \E key \in PalletKeys, v \in Plates :
    /\ nSaves < MaxSaves
    /\ Commit("releaseVehicle", key, 0, toUpperCase(v), 0,
              serviceReleaseVehicle(machine, key, v))

SetPalletMaintenance ==
  \E key \in PalletKeys :
    /\ nSaves < MaxSaves
    /\ Commit("maintenance", key, 0, "", 0, setPalletMaintenance(machine, key))

UpdateMachine ==
  \E t \in MachineTypes, k \in ParkingTypes, s \in StatusInputs :
    /\ nSaves < MaxSaves
    /\ Commit("update", 0, 0, "", 0,
              [error |-> "ok", machine |-> updateMachine(machine, t, k, s)])

Next ==
  \/ OccupyPallet
  \/ ReleasePalletByBooking
  \/ ReleaseVehicle
  \/ SetPalletMaintenance
  \/ UpdateMachine

Spec == Init /\ [][Next]_vars

(* Deactivation.  MachineService.deactivateMachine throws a plain error    *)
(* with statusCode 400 when a pallet has an occupant; its catch block      *)
(* passes on AppError instances only and replaces every other error by     *)
(* 'Failed to deactivate machine' with statusCode 500.                     *)
hasActiveBookings(m) ==
  \E i \in DOMAIN m.pallets : Len(m.pallets[i].currentBookings) > 0

serviceDeactivateMachine(m) ==
  IF hasActiveBookings(m)
  THEN [error |-> "Failed to deactivate machine", statusCode |-> 500,
        machine |-> m]
  ELSE [error |-> "ok", statusCode |-> 200,
        machine |-> preSave([m EXCEPT !.status = OFFLINE], FALSE)]

DeactivateMachine ==
  LET r == serviceDeactivateMachine(machine)
  IN /\ nSaves < MaxSaves
     /\ machine' = r.machine
     /\ last' = [NoRequest EXCEPT !.op = "deactivate", !.result = r.error,
                                  !.statusCode = r.statusCode]
     /\ nSaves' = IF r.error = "ok" THEN nSaves + 1 ELSE nSaves
     /\ UNCHANGED <<inflight, batch>>
     /\ UNCHANGED bookVars

NextDeact ==
  \/ OccupyPallet
  \/ ReleasePalletByBooking
  \/ UpdateMachine
  \/ DeactivateMachine

SpecDeact == Init /\ [][NextDeact]_vars

----------------------------------------------------------------------------
(* Filling and draining one pallet of a two-wheeler rotary machine: every  *)
(* occupy comes from a new booking (the booking engine creates one booking *)
(* per occupy), a release names any booking made so far.                   *)

FillKey == 1

InitFill ==
  /\ machine = createMachine("two-wheeler", "rotary", NumPallets)
  /\ last = NoRequest
  /\ nSaves = 0
  /\ inflight = [w \in Workers |-> Idle]
  /\ batch = NoBatch
  /\ EmptyStores

FillOccupy ==
  \E h \in PositionHints :
    /\ nSaves < MaxFillSaves
    /\ Commit("occupy", FillKey, nSaves + 1, "KA01", h,
              serviceOccupyPallet(machine, FillKey, nSaves + 1, "ka01", h))

FillRelease ==
  \E b \in 1..MaxFillSaves :
    /\ nSaves < MaxFillSaves
    /\ Commit("release", FillKey, b, "", 0,
              serviceReleasePallet(machine, FillKey, b))

NextFill == FillOccupy \/ FillRelease

SpecFill == InitFill /\ [][NextFill]_vars

----------------------------------------------------------------------------
(* Concurrent requests on one pallet.  A request is two steps: findById    *)
(* hands the worker its own copy of the document, later the method runs on *)
(* that copy and save() writes.  The code takes no lock and sends no       *)
(* condition of its own with the write.  What save() does when the stored  *)
(* document has been written since the copy was loaded is left to the      *)
(* object mapper: it either rejects the write (version error) or applies   *)
(* the changes of the copy to the stored document; both are modelled.      *)

ConcRequests ==
  {[op |-> "occupy", key |-> FillKey, booking |-> bv[1], plate |-> bv[2],
    hint |-> 0] : bv \in OccupyInputs}
  \cup {[op |-> "release", key |-> FillKey, booking |-> b, plate |-> "",
          hint |-> 0] : b \in Bookings}
  \cup {[op |-> "releaseVehicle", key |-> FillKey, booking |-> 0,
          plate |-> v, hint |-> 0] : v \in Plates}

(* the service method of a request, run on document m *)
serve(m, req) ==
  CASE req.op = "occupy" ->
         serviceOccupyPallet(m, req.key, req.booking, req.plate, req.hint)
    [] req.op = "release" -> serviceReleasePallet(m, req.key, req.booking)
    [] OTHER -> serviceReleaseVehicle(m, req.key, req.plate)

changed(before, after, stored) == IF after # before THEN after ELSE stored

(* save(): the changes made to the copy (before -> after) written to the   *)
(* stored document: a push is appended, a spliced array is set whole, a    *)
(* changed field is set, everything else is left as stored                 *)
applyDelta(stored, before, after) ==
  [stored EXCEPT
     !.capacity =
        [f \in DOMAIN stored.capacity |->
           changed(before.capacity[f], after.capacity[f], stored.capacity[f])],
     !.pallets =
        [i \in DOMAIN stored.pallets |->
           LET s == stored.pallets[i]
               b == before.pallets[i]
               a == after.pallets[i]
           IN [s EXCEPT
                 !.status = changed(b.status, a.status, s.status),
                 !.currentOccupancy =
                    changed(b.currentOccupancy, a.currentOccupancy,
                            s.currentOccupancy),
                 !.occupiedSince =
                    changed(b.occupiedSince, a.occupiedSince, s.occupiedSince),
                 !.currentBookings =
                    IF a.currentBookings = b.currentBookings
                    THEN s.currentBookings
                    ELSE IF Len(a.currentBookings) = Len(b.currentBookings) + 1
                            /\ SubSeq(a.currentBookings, 1,
                                      Len(b.currentBookings))
                                 = b.currentBookings
                    THEN Append(s.currentBookings,
                                a.currentBookings[Len(a.currentBookings)])
                    ELSE a.currentBookings]]]

NoneLoaded == \A w \in Workers : inflight[w].pc # "loaded"

InitConc ==
  /\ \E t \in MachineTypes : machine = createMachine(t, "rotary", NumPallets)
  /\ last = NoRequest
  /\ nSaves = 0
  /\ inflight = [w \in Workers |-> Idle]
  /\ batch = NoBatch
  /\ EmptyStores

(* await Machine.findById(machineId) *)
Load(w) ==
  \E req \in ConcRequests :
    /\ nSaves + Cardinality({v \in Workers : inflight[v].pc = "loaded"})
         < MaxConcSaves
    /\ LET mine == [pc |-> "loaded", op |-> req.op, key |-> req.key,
                    booking |-> req.booking, plate |-> req.plate,
                    hint |-> req.hint, doc |-> machine, version |-> nSaves]
       IN IF NoneLoaded
          THEN /\ inflight' = [v \in Workers |-> IF v = w THEN mine ELSE Idle]
               /\ batch' = [base |-> machine, reqs |-> <<req>>]
          ELSE /\ inflight[w].pc = "idle"
               /\ inflight' = [inflight EXCEPT ![w] = mine]
               /\ batch' = [batch EXCEPT !.reqs = Append(@, req)]
    /\ UNCHANGED <<machine, last, nSaves>>
    /\ UNCHANGED bookVars

(* the method runs on the copy and save() writes its changes *)
Save(w) ==
  LET me == inflight[w]
      r == serve(me.doc, me)
  IN /\ me.pc = "loaded"
     /\ machine' = IF r.error = "ok"
                    THEN applyDelta(machine, me.doc, r.machine)
                    ELSE machine
     /\ last' = RequestOn(me.doc, me.op, me.key, me.booking,
                          toUpperCase(me.plate), me.hint, r)
     /\ nSaves' = IF r.error = "ok" THEN nSaves + 1 ELSE nSaves
     /\ inflight' = [inflight EXCEPT ![w].pc = "done"]
     /\ UNCHANGED batch
     /\ UNCHANGED bookVars

(* save() rejects the write: the document was written since it was loaded *)
SaveVersionError(w) ==
  LET me == inflight[w]
      r == serve(me.doc, me)
  IN /\ me.pc = "loaded"
     /\ r.error = "ok"
     /\ me.version # nSaves
     /\ last' = RequestOn(me.doc, me.op, me.key, me.booking,
                          toUpperCase(me.plate), me.hint,
                          [error |-> "VersionError", machine |-> machine])
     /\ inflight' = [inflight EXCEPT ![w].pc = "done"]
     /\ UNCHANGED <<machine, nSaves, batch>>
     /\ UNCHANGED bookVars

NextConc ==
  \E w \in Workers : Load(w) \/ Save(w) \/ SaveVersionError(w)

SpecConc == InitConc /\ [][NextConc]_vars

----------------------------------------------------------------------------
(* Booking engine (services/bookingService, models/Booking,               *)
(* services/customerService).  bookingDocs and customerDocs are the two    *)
(* collections in insertion order, the _id of a document is its index.     *)
(* clock is the wall clock in minutes.  One machine, "M001", exists at the *)
(* site of the operator; "M002" is a well-formed code of no machine.       *)

MaxBookings == 2
MaxBookSaves == 2
MaxClock == 30

MachineNumbers == {"M001", "M002"}
(* pallet numbers of the create requests: below 1, a pallet of the        *)
(* machine, the largest and the first number above the schema's maximum    *)
BookingPallets == {0, 1, 8, 9}
OtpCodes == {"100000", "999999"}
Phones == {"9000000001", "9000000002"}
(* (phoneNumber, vehicleNumber) of the create requests: each customer     *)
(* parks their own vehicle                                                 *)
CreateInputs == {<<"9000000001", "ka01">>, <<"9000000002", "KA02">>}
(* req.body of POST /:id/complete: no payment, a membership payment of    *)
(* amount 0, a cash payment                                                *)
NoPayment == [given |-> FALSE, amount |-> 0, method |-> NULL]
Payments ==
  {NoPayment,
   [given |-> TRUE, amount |-> 0, method |-> "membership"],
   [given |-> TRUE, amount |-> 50, method |-> "cash"]}
Reasons == {"customer left"}
(* req.body.reason of the customer delete route: none, or a text *)
DeleteReasons == {"", "moved away"}
(* the instants at which the clock is read *)
Instants == {t \in 0..MaxClock : t % 30 \in {0, 29}}

ACTIVE == "active"
COMPLETED == "completed"
CANCELLED == "cancelled"
PENDING == "pending"
OtpExpiryMinutes == 30
MaxPalletNumber == 8

(* bookingSchema.virtual('isOTPValid') *)
isOTPValid(b, t) == ~b.otp.isUsed /\ b.otp.expiresAt > t

(* a filter that still matches a code at the instant it expires *)
findByOTP_atExpiry(docs, otpCode, t) ==
  {i \in DOMAIN docs :
     /\ docs[i].stored
     /\ docs[i].otp.code = otpCode
     /\ docs[i].otp.isUsed = FALSE
     /\ docs[i].otp.expiresAt >= t
     /\ docs[i].status = ACTIVE}

(* the documents the filter of bookingSchema.statics.findByOTP matches *)
findByOTP(docs, otpCode, t) ==
  {i \in DOMAIN docs :
     /\ docs[i].stored
     /\ docs[i].otp.code = otpCode
     /\ docs[i].otp.isUsed = FALSE
     /\ docs[i].otp.expiresAt > t
     /\ docs[i].status = ACTIVE}

(* the otp block createBooking and generateNewOTP write; usedAt -1 is the *)
(* null of a code never used                                               *)
newOTP(otpCode, t) ==
  [code |-> otpCode, generatedAt |-> t, expiresAt |-> t + OtpExpiryMinutes,
   isUsed |-> FALSE, usedAt |-> -1]

(* bookingSchema.methods.useOTP, after its validity check *)
useOTP(b, t) == [b EXCEPT !.otp.isUsed = TRUE, !.otp.usedAt = t]

(* bookingSchema.methods.generateNewOTP *)
generateNewOTP_keepsUsed(b, otpCode, t) ==
  [b EXCEPT !.otp.code = otpCode, !.otp.generatedAt = t,
            !.otp.expiresAt = t + OtpExpiryMinutes]

generateNewOTP(b, otpCode, t) == [b EXCEPT !.otp = newOTP(otpCode, t)]

(* if (paymentData.amount) *)
paymentIsRecorded(paymentData) == paymentData.amount # 0

(* a complete() that leaves the status as it was *)
complete_statusKept(b, completedBy, paymentData) ==
  [b EXCEPT !.endTime = SET, !.completedBy = completedBy]

(* bookingSchema.methods.complete *)
complete(b, completedBy, paymentData) ==
  [b EXCEPT
     !.status = COMPLETED,
     !.endTime = SET,
     !.completedBy = completedBy,
     !.payment = IF paymentIsRecorded(paymentData)
                 THEN [amount |-> paymentData.amount,
                       method |-> paymentData.method,
                       status |-> COMPLETED, paidAt |-> SET]
                 ELSE @]

(* palletNumber: min 1, max 8 of the booking schema *)
palletNumberIsValid(palletNumber) ==
  palletNumber >= 1 /\ palletNumber <= MaxPalletNumber

(* BookingService.validateMachinePallet: the format of the code and a     *)
(* positive pallet number                                                  *)
validateMachinePallet(machineNumber, palletNumber) ==
  machineNumber \in MachineNumbers /\ ~(palletNumber < 1)

(* new Booking({...}) of createBooking *)
newBooking(customerId, vehicleNumber, machineNumber, palletNumber, otpCode, t) ==
  [NoBooking EXCEPT
     !.stored = TRUE,
     !.status = ACTIVE,
     !.machineNumber = machineNumber,
     !.palletNumber = palletNumber,
     !.vehicleNumber = toUpperCase(vehicleNumber),
     !.customer = customerId,
     !.otp = newOTP(otpCode, t)]

(* Customer.findOne({ phoneNumber, status: 'active' }) *)
findActiveCustomer(docs, phoneNumber) ==
  firstIndex({i \in DOMAIN docs :
                docs[i].phoneNumber = phoneNumber /\ docs[i].status = ACTIVE})

(* the unique index on phoneNumber refuses the insert *)
phoneIsIndexed(docs, phoneNumber) ==
  \E i \in DOMAIN docs : docs[i].phoneNumber = phoneNumber

(* an entry of customer.vehicles as the services push it *)
newVehicle(vehicleNumber) ==
  [vehicleNumber |-> toUpperCase(vehicleNumber), isActive |-> TRUE]

(* customer.vehicles.find(v => v.vehicleNumber === plate.toUpperCase()     *)
(*                             && v.isActive)                              *)
findActiveVehicle(vehicles, vehicleNumber) ==
  firstIndex({i \in DOMAIN vehicles :
                /\ vehicles[i].vehicleNumber = toUpperCase(vehicleNumber)
                /\ vehicles[i].isActive})

(* the membership block of a customer who never had a membership *)
NoMembership ==
  [membershipNumber |-> 0, pin |-> 0, membershipType |-> NULL,
   vehicleTypes |-> {}, issuedDate |-> 0, expiryDate |-> 0,
   validityTerm |-> 0, isActive |-> FALSE]

(* A name is the sequence of the words that split(' ') gives for the     *)
(* trimmed string; DefaultName is the name of the requests that do not     *)
(* vary it.                                                                *)
DefaultName == <<"Asha", "Rao">>
CustomerNames == {<<"Asha", "Rao">>, <<"Asha">>, <<"Ravi", "Rao">>}

(* nameParts[0] *)
firstNameOf(customerName) == customerName[1]

(* nameParts.slice(1).join(' ') || firstName *)
lastNameOf(customerName) ==
  IF Tail(customerName) # <<>> THEN Tail(customerName)
  ELSE <<customerName[1]>>

(* `${customer.firstName} ${customer.lastName}`.trim() *)
fullName(c) == <<c.firstName>> \o c.lastName

(* new Customer({...}) of createCustomer and createBooking; vehicles is    *)
(* the list of plates of the request                                       *)
newCustomer(phoneNumber, vehicles) ==
  [firstName |-> firstNameOf(DefaultName), lastName |-> lastNameOf(DefaultName),
   phoneNumber |-> phoneNumber, status |-> ACTIVE,
   vehicles |-> [i \in DOMAIN vehicles |-> newVehicle(vehicles[i])],
   deletedAt |-> NULL, deletionReason |-> NULL,
   membership |-> NoMembership]

(* a count that looks at pending bookings only *)
activeBookingsOf_pendingOnly(docs, customerId) ==
  Cardinality({i \in DOMAIN docs :
                 /\ docs[i].stored
                 /\ docs[i].customer = customerId
                 /\ docs[i].status = PENDING})

(* Booking.countDocuments({ customer, status: { $in: ['active', 'pending'] } }) *)
activeBookingsOf(docs, customerId) ==
  Cardinality({i \in DOMAIN docs :
                 /\ docs[i].stored
                 /\ docs[i].customer = customerId
                 /\ docs[i].status \in {ACTIVE, PENDING}})

(* Machine.findOne({ machineNumber, siteId }) of createBooking *)
machineExists(machineNumber) == machineNumber = "M001"

(* Booking.find({ machineNumber, status }) of getBookingsByMachine *)
getBookingsByMachine(docs, machineNumber, status) ==
  {i \in DOMAIN docs :
     /\ docs[i].stored
     /\ docs[i].machineNumber = machineNumber
     /\ docs[i].status = status}

(* the status checks of the service methods *)
canUpdate(b) == b.status \notin {COMPLETED, CANCELLED}

canComplete(b) == b.status = ACTIVE

canCancel_notCancelled(b) == b.status # CANCELLED

canCancel(b) == b.status \notin {COMPLETED, CANCELLED}

canGenerateOTP(b) == b.status = ACTIVE

canExtend(b) == b.status = ACTIVE

(* the response of a request that threw *)
Failed(op, result, id, code) ==
  [NoBookingRequest EXCEPT !.op = op, !.result = result, !.id = id,
                           !.code = code]

(* a stored booking with that _id, or NoBooking *)
findById(docs, id) ==
  IF id \in DOMAIN docs /\ docs[id].stored THEN docs[id] ELSE NoBooking

InitBook ==
  /\ \E t \in MachineTypes, st \in StatusInputs :
       machine = [createMachine(t, "rotary", NumPallets) EXCEPT !.status = st]
  /\ last = NoRequest
  /\ nSaves = 0
  /\ inflight = [w \in Workers |-> Idle]
  /\ batch = NoBatch
  /\ EmptyStores

(* createBooking: the existing customer takes the name of the request    *)
(* when it differs from the stored full name                               *)
renameCustomer(c, customerName) ==
  IF customerName # fullName(c)
  THEN [c EXCEPT !.firstName = firstNameOf(customerName),
                 !.lastName = lastNameOf(customerName)]
  ELSE c

(* BookingService.createBooking with the customerName of the request *)
CreateBookingAs(pv, customerName, mn, pn, otpCode) ==
    LET phone == pv[1]
        plate == pv[2]
        c == findActiveCustomer(customerDocs, phone)
        insertFails == c = 0 /\ phoneIsIndexed(customerDocs, phone)
        customerNameUpdated ==
          c # 0 /\ customerName # fullName(customerDocs[c])
        customers1 ==
          IF c = 0
          THEN IF insertFails THEN customerDocs
               ELSE Append(customerDocs,
                           [newCustomer(phone, <<plate>>) EXCEPT
                              !.firstName = firstNameOf(customerName),
                              !.lastName = lastNameOf(customerName)])
          ELSE [customerDocs EXCEPT
                  ![c] = [renameCustomer(@, customerName) EXCEPT
                            !.vehicles =
                               IF findActiveVehicle(@, plate) # 0 THEN @
                               ELSE Append(@, newVehicle(plate))]]
        cid == IF c = 0 THEN Len(customers1) ELSE c
        id == Len(bookingDocs) + 1
        b == [newBooking(cid, plate, mn, pn, otpCode, clock) EXCEPT
                !.customerName = fullName(customers1[cid]),
                !.phoneNumber = customers1[cid].phoneNumber]
        r == serviceOccupyPallet(machine, pn, id, plate, 0)
    IN /\ Len(bookingDocs) < MaxBookings
       /\ customerDocs' = customers1
       /\ UNCHANGED <<clock, inflight, batch, orgVars>>
       /\ IF insertFails \/ (validateMachinePallet(mn, pn)
                              /\ ~palletNumberIsValid(pn))
          THEN /\ breq' = [Failed("create", "CreateFailed", 0, "") EXCEPT
                             !.phone = phone, !.machineNumber = mn,
                             !.palletNumber = pn]
               /\ UNCHANGED <<bookingDocs, machine, last, nSaves>>
          ELSE IF ~validateMachinePallet(mn, pn)
          THEN /\ breq' = [Failed("create", "InvalidPallet", 0, "") EXCEPT
                             !.phone = phone, !.machineNumber = mn,
                             !.palletNumber = pn]
               /\ UNCHANGED <<bookingDocs, machine, last, nSaves>>
          ELSE /\ bookingDocs' = Append(bookingDocs, b)
               /\ nSaves' = nSaves + 1
               /\ IF machineExists(mn)
                  THEN /\ machine' = r.machine
                       /\ last' = Request("occupy", pn, id, toUpperCase(plate),
                                          0, r)
                  ELSE UNCHANGED <<machine, last>>
               /\ breq' = [NoBookingRequest EXCEPT
                             !.op = "create", !.id = id, !.code = otpCode,
                             !.phone = phone, !.machineNumber = mn,
                             !.palletNumber = pn, !.occupies = 1,
                             !.effect = IF machineExists(mn) THEN r.error
                                        ELSE "MachineNotFound",
                             !.customerName = customerName,
                             !.customerNameUpdated = customerNameUpdated]

CreateBooking(pv, mn, pn, otpCode) ==
  CreateBookingAs(pv, DefaultName, mn, pn, otpCode)

(* req.body of PUT /:id: a note, and fields outside the allowed list *)
UpdateData ==
  [notes |-> <<"note">>, customerName |-> <<"Mallory">>,
   phoneNumber |-> "9000000009", machineNumber |-> "M009",
   palletNumber |-> 2]

(* updateBooking: $set of the allowed fields of updateData *)
applyUpdate_everyField(b, updateData) ==
  [b EXCEPT !.notes = updateData.notes,
            !.customerName = updateData.customerName,
            !.phoneNumber = updateData.phoneNumber,
            !.machineNumber = updateData.machineNumber,
            !.palletNumber = updateData.palletNumber]

applyUpdate(b, updateData) == [b EXCEPT !.notes = updateData.notes]

(* BookingService.updateBooking *)
UpdateBooking(id) ==
    LET b == findById(bookingDocs, id)
    IN /\ UNCHANGED <<machine, last, customerDocs, clock, inflight, batch, orgVars>>
       /\ IF ~b.stored
          THEN /\ breq' = Failed("update", "NotFound", id, "")
               /\ UNCHANGED <<bookingDocs, nSaves>>
          ELSE IF ~canUpdate(b)
          THEN /\ breq' = Failed("update", "IllegalTransition", id, "")
               /\ UNCHANGED <<bookingDocs, nSaves>>
          ELSE /\ bookingDocs' =
                    [bookingDocs EXCEPT ![id] = applyUpdate(b, UpdateData)]
               /\ nSaves' = nSaves + 1
               /\ breq' = [NoBookingRequest EXCEPT
                             !.op = "update", !.id = id, !.pre = b]

(* BookingService.completeBooking.  The filter of its machine lookup      *)
(* takes siteId from the booking document, whose schema declares no such   *)
(* path: the lookup either matches no machine or matches by the code.      *)
CompleteBooking(id, pay, siteMatches) ==
    LET b == findById(bookingDocs, id)
        found == machineExists(b.machineNumber) /\ siteMatches
        r == serviceReleaseVehicle(machine, b.palletNumber, b.vehicleNumber)
    IN /\ UNCHANGED <<customerDocs, clock, inflight, batch, orgVars>>
       /\ IF ~b.stored
          THEN /\ breq' = Failed("complete", "NotFound", id, "")
               /\ UNCHANGED <<bookingDocs, machine, last, nSaves>>
          ELSE IF ~canComplete(b)
          THEN /\ breq' = Failed("complete", "IllegalTransition", id, "")
               /\ UNCHANGED <<bookingDocs, machine, last, nSaves>>
          ELSE /\ bookingDocs' =
                    [bookingDocs EXCEPT ![id] = complete(b, "operator", pay)]
               /\ nSaves' = nSaves + 1
               /\ IF found
                  THEN /\ machine' = r.machine
                       /\ last' = Request("releaseVehicle", b.palletNumber, 0,
                                          b.vehicleNumber, 0, r)
                  ELSE UNCHANGED <<machine, last>>
               /\ breq' = [NoBookingRequest EXCEPT
                             !.op = "complete", !.id = id, !.pre = b,
                             !.releases = 1, !.amount = pay.amount,
                             !.reason = IF pay.given THEN pay.method ELSE "",
                             !.effect = IF found THEN r.error
                                        ELSE "MachineNotFound"]

(* BookingService.cancelBooking.  After its checks it calls               *)
(* booking.delete(reason); the Booking model defines no such method.  The  *)
(* call either throws a TypeError, or it is the object mapper's own        *)
(* delete, which removes the document, and the save() that follows fails.  *)
CancelOutcomes == {"TypeError", "removed"}

CancelBooking(id, reason, outcome) ==
    LET b == findById(bookingDocs, id)
    IN /\ UNCHANGED <<machine, last, customerDocs, clock, inflight, batch, orgVars>>
       /\ IF ~b.stored
          THEN /\ breq' = Failed("cancel", "NotFound", id, "")
               /\ UNCHANGED <<bookingDocs, nSaves>>
          ELSE IF ~canCancel(b)
          THEN /\ breq' = Failed("cancel", "IllegalTransition", id, "")
               /\ UNCHANGED <<bookingDocs, nSaves>>
          ELSE /\ breq' = [Failed("cancel", "CancelFailed", id, "")
                             EXCEPT !.pre = b, !.reason = reason]
               /\ IF outcome = "removed"
                  THEN /\ bookingDocs' = [bookingDocs EXCEPT ![id].stored = FALSE]
                       /\ nSaves' = nSaves + 1
                  ELSE UNCHANGED <<bookingDocs, nSaves>>

(* BookingService.verifyOTP: findOne returns one of the matching          *)
(* documents, useOTP checks isOTPValid before it writes                    *)
VerifyOTP(otpCode) ==
    LET matches == findByOTP(bookingDocs, otpCode, clock)
    IN /\ UNCHANGED <<machine, last, customerDocs, clock, inflight, batch, orgVars>>
       /\ IF matches = {}
          THEN /\ breq' = Failed("verifyOTP", "InvalidOrExpiredOTP", 0, otpCode)
               /\ UNCHANGED <<bookingDocs, nSaves>>
          ELSE \E id \in matches :
                 IF ~isOTPValid(bookingDocs[id], clock)
                 THEN /\ breq' = Failed("verifyOTP", "VerifyFailed", id,
                                        otpCode)
                      /\ UNCHANGED <<bookingDocs, nSaves>>
                 ELSE /\ bookingDocs' =
                           [bookingDocs EXCEPT
                              ![id] = useOTP(bookingDocs[id], clock)]
                      /\ nSaves' = nSaves + 1
                      /\ breq' = [NoBookingRequest EXCEPT
                                    !.op = "verifyOTP", !.id = id,
                                    !.code = otpCode, !.pre = bookingDocs[id]]

(* BookingService.generateNewOTP *)
GenerateNewOTP(id, otpCode) ==
    LET b == findById(bookingDocs, id)
    IN /\ UNCHANGED <<machine, last, customerDocs, clock, inflight, batch, orgVars>>
       /\ IF ~b.stored
          THEN /\ breq' = Failed("generateNewOTP", "NotFound", id, "")
               /\ UNCHANGED <<bookingDocs, nSaves>>
          ELSE IF ~canGenerateOTP(b)
          THEN /\ breq' = Failed("generateNewOTP", "IllegalTransition", id, "")
               /\ UNCHANGED <<bookingDocs, nSaves>>
          ELSE /\ bookingDocs' =
                    [bookingDocs EXCEPT ![id] = generateNewOTP(b, otpCode, clock)]
               /\ nSaves' = nSaves + 1
               /\ breq' = [NoBookingRequest EXCEPT
                             !.op = "generateNewOTP", !.id = id,
                             !.code = otpCode, !.pre = b]

(* BookingService.extendBooking *)
ExtendBooking(id) ==
    LET b == findById(bookingDocs, id)
    IN /\ UNCHANGED <<machine, last, customerDocs, clock, inflight, batch, orgVars>>
       /\ IF ~b.stored
          THEN /\ breq' = Failed("extend", "NotFound", id, "")
               /\ UNCHANGED <<bookingDocs, nSaves>>
          ELSE IF ~canExtend(b)
          THEN /\ breq' = Failed("extend", "IllegalTransition", id, "")
               /\ UNCHANGED <<bookingDocs, nSaves>>
          ELSE /\ bookingDocs' =
                    [bookingDocs EXCEPT ![id].notes = Append(@, "extended")]
               /\ nSaves' = nSaves + 1
               /\ breq' = [NoBookingRequest EXCEPT
                             !.op = "extend", !.id = id, !.pre = b]

(* CustomerService.createCustomer *)
CreateCustomer(phone, vehicles) ==
    /\ UNCHANGED <<machine, last, bookingDocs, clock, inflight, batch, orgVars>>
    /\ IF findActiveCustomer(customerDocs, phone) # 0
       THEN /\ breq' = [Failed("createCustomer", "DuplicatePhone", 0, "")
                          EXCEPT !.phone = phone]
            /\ UNCHANGED <<customerDocs, nSaves>>
       ELSE IF phoneIsIndexed(customerDocs, phone)
       THEN /\ breq' = [Failed("createCustomer", "DuplicateKey", 0, "")
                          EXCEPT !.phone = phone]
            /\ UNCHANGED <<customerDocs, nSaves>>
       ELSE /\ customerDocs' = Append(customerDocs,
                                      newCustomer(phone, vehicles))
            /\ nSaves' = nSaves + 1
            /\ breq' = [NoBookingRequest EXCEPT
                          !.op = "createCustomer", !.id = Len(customerDocs) + 1,
                          !.phone = phone]

(* CustomerService.updateCustomer with firstName and lastName *)
UpdateCustomer(cid, firstName, lastName) ==
    /\ UNCHANGED <<machine, last, bookingDocs, clock, inflight, batch, orgVars>>
    /\ IF cid \notin DOMAIN customerDocs
       THEN /\ breq' = Failed("updateCustomer", "NotFound", cid, "")
            /\ UNCHANGED <<customerDocs, nSaves>>
       ELSE IF customerDocs[cid].status # ACTIVE
       THEN /\ breq' = Failed("updateCustomer", "AlreadyDeleted", cid, "")
            /\ UNCHANGED <<customerDocs, nSaves>>
       ELSE /\ customerDocs' =
                 [customerDocs EXCEPT ![cid].firstName = firstName,
                                      ![cid].lastName = lastName]
            /\ nSaves' = nSaves + 1
            /\ breq' = [NoBookingRequest EXCEPT
                          !.op = "updateCustomer", !.id = cid,
                          !.phone = customerDocs[cid].phoneNumber,
                          !.customerName = <<firstName>> \o lastName]

(* CustomerService.deleteCustomer (soft delete) *)
DeleteCustomer(cid, reason) ==
    /\ UNCHANGED <<machine, last, bookingDocs, clock, inflight, batch, orgVars>>
    /\ IF cid \notin DOMAIN customerDocs
       THEN /\ breq' = Failed("deleteCustomer", "NotFound", cid, "")
            /\ UNCHANGED <<customerDocs, nSaves>>
       ELSE IF customerDocs[cid].status # ACTIVE
       THEN /\ breq' = Failed("deleteCustomer", "AlreadyDeleted", cid, "")
            /\ UNCHANGED <<customerDocs, nSaves>>
       ELSE IF activeBookingsOf(bookingDocs, cid) > 0
       THEN /\ breq' = Failed("deleteCustomer", "HasActiveBookings", cid, "")
            /\ UNCHANGED <<customerDocs, nSaves>>
       ELSE /\ customerDocs' =
                 [customerDocs EXCEPT
                    ![cid].status = "inactive",
                    ![cid].deletedAt = SET,
                    ![cid].deletionReason = IF reason # "" THEN reason ELSE @]
            /\ nSaves' = nSaves + 1
            /\ breq' = [NoBookingRequest EXCEPT
                          !.op = "deleteCustomer", !.id = cid,
                          !.phone = customerDocs[cid].phoneNumber,
                          !.reason = reason]

(* Booking.countDocuments({ customer, vehicleNumber, status: { $in:       *)
(* ['active', 'pending'] } }) of removeCustomerVehicle                     *)
activeBookingsOfVehicle(docs, customerId, vehicleNumber) ==
  Cardinality({i \in DOMAIN docs :
                 /\ docs[i].stored
                 /\ docs[i].customer = customerId
                 /\ docs[i].vehicleNumber = vehicleNumber
                 /\ docs[i].status \in {ACTIVE, PENDING}})

(* CustomerService.addCustomerVehicle *)
AddCustomerVehicle(cid, vehicleNumber) ==
    /\ UNCHANGED <<machine, last, bookingDocs, clock, inflight, batch, orgVars>>
    /\ IF cid \notin DOMAIN customerDocs
       THEN /\ breq' = Failed("addVehicle", "NotFound", cid, "")
            /\ UNCHANGED <<customerDocs, nSaves>>
       ELSE IF customerDocs[cid].status # ACTIVE
       THEN /\ breq' = Failed("addVehicle", "CustomerDeleted", cid, "")
            /\ UNCHANGED <<customerDocs, nSaves>>
       ELSE IF findActiveVehicle(customerDocs[cid].vehicles, vehicleNumber) # 0
       THEN /\ breq' = Failed("addVehicle", "VehicleExists", cid, "")
            /\ UNCHANGED <<customerDocs, nSaves>>
       ELSE /\ customerDocs' =
                 [customerDocs EXCEPT
                    ![cid].vehicles = Append(@, newVehicle(vehicleNumber))]
            /\ nSaves' = nSaves + 1
            /\ breq' = [NoBookingRequest EXCEPT
                          !.op = "addVehicle", !.id = cid,
                          !.code = toUpperCase(vehicleNumber)]

(* CustomerService.updateCustomerVehicle with a vehicleNumber in the       *)
(* update; vid is the position of the vehicle in customer.vehicles         *)
UpdateCustomerVehicle(cid, vid, vehicleNumber) ==
    /\ UNCHANGED <<machine, last, bookingDocs, clock, inflight, batch, orgVars>>
    /\ IF cid \notin DOMAIN customerDocs
       THEN /\ breq' = Failed("updateVehicle", "NotFound", cid, "")
            /\ UNCHANGED <<customerDocs, nSaves>>
       ELSE IF \/ vid \notin DOMAIN customerDocs[cid].vehicles
               \/ ~customerDocs[cid].vehicles[vid].isActive
       THEN /\ breq' = Failed("updateVehicle", "VehicleNotFound", cid, "")
            /\ UNCHANGED <<customerDocs, nSaves>>
       ELSE /\ customerDocs' =
                 [customerDocs EXCEPT
                    ![cid].vehicles[vid].vehicleNumber =
                       toUpperCase(vehicleNumber)]
            /\ nSaves' = nSaves + 1
            /\ breq' = [NoBookingRequest EXCEPT
                          !.op = "updateVehicle", !.id = cid,
                          !.code = toUpperCase(vehicleNumber)]

(* CustomerService.removeCustomerVehicle (soft delete of the vehicle) *)
RemoveCustomerVehicle(cid, vid) ==
    /\ UNCHANGED <<machine, last, bookingDocs, clock, inflight, batch, orgVars>>
    /\ IF cid \notin DOMAIN customerDocs
       THEN /\ breq' = Failed("removeVehicle", "NotFound", cid, "")
            /\ UNCHANGED <<customerDocs, nSaves>>
       ELSE IF \/ vid \notin DOMAIN customerDocs[cid].vehicles
               \/ ~customerDocs[cid].vehicles[vid].isActive
       THEN /\ breq' = Failed("removeVehicle", "VehicleNotFound", cid, "")
            /\ UNCHANGED <<customerDocs, nSaves>>
       ELSE IF activeBookingsOfVehicle(bookingDocs, cid,
                 customerDocs[cid].vehicles[vid].vehicleNumber) > 0
       THEN /\ breq' = Failed("removeVehicle", "HasActiveBookings", cid, "")
            /\ UNCHANGED <<customerDocs, nSaves>>
       ELSE /\ customerDocs' =
                 [customerDocs EXCEPT ![cid].vehicles[vid].isActive = FALSE]
            /\ nSaves' = nSaves + 1
            /\ breq' = [NoBookingRequest EXCEPT
                          !.op = "removeVehicle", !.id = cid,
                          !.code = customerDocs[cid].vehicles[vid].vehicleNumber]

(* time passes; nothing runs when an OTP expires *)
Tick ==
  \E t \in Instants :
    /\ t > clock
    /\ clock' = t
    /\ UNCHANGED <<machine, last, nSaves, inflight, batch, orgVars, bookingDocs,
                   customerDocs, breq>>

(* The booking lifecycle against the machine: one OTP code, the clock    *)
(* standing still, MaxBookDocs bookings.                                   *)
MaxBookDocs == 1

(* (machineNumber, palletNumber) of the create requests: every pallet   *)
(* number on the machine, one pallet of the code of no machine             *)
CreateTargets ==
  {mp \in MachineNumbers \X BookingPallets : mp[1] = "M001" \/ mp[2] = 1}

BookCreate ==
  \E pv \in CreateInputs, mp \in CreateTargets :
    /\ CreateBooking(pv, mp[1], mp[2], "100000")
    /\ nSaves' <= MaxBookSaves
    /\ Len(bookingDocs') <= MaxBookDocs
BookUpdate ==
  \E id \in 1..MaxBookDocs : UpdateBooking(id) /\ nSaves' <= MaxBookSaves
BookComplete ==
  \E id \in 1..MaxBookDocs, pay \in Payments, siteMatches \in BOOLEAN :
    CompleteBooking(id, pay, siteMatches) /\ nSaves' <= MaxBookSaves
BookCancel ==
  \E id \in 1..MaxBookDocs, reason \in Reasons, outcome \in CancelOutcomes :
    CancelBooking(id, reason, outcome) /\ nSaves' <= MaxBookSaves
BookVerify == VerifyOTP("100000") /\ nSaves' <= MaxBookSaves
BookRegenerate ==
  \E id \in 1..MaxBookDocs :
    GenerateNewOTP(id, "100000") /\ nSaves' <= MaxBookSaves
BookExtend ==
  \E id \in 1..MaxBookDocs : ExtendBooking(id) /\ nSaves' <= MaxBookSaves

NextBook ==
  \/ BookCreate
  \/ BookUpdate
  \/ BookComplete
  \/ BookCancel
  \/ BookVerify
  \/ BookRegenerate
  \/ BookExtend

SpecBook == InitBook /\ [][NextBook]_vars

(* OTP issue, redemption and expiry: bookings for the machine code of no   *)
(* machine, so that the machine document stays as it is.                   *)
MaxOtpSaves == 3

OtpCreate ==
  \E pv \in CreateInputs, otpCode \in OtpCodes :
    CreateBooking(pv, "M002", 1, otpCode) /\ nSaves' <= MaxOtpSaves
OtpVerify ==
  \E otpCode \in OtpCodes : VerifyOTP(otpCode) /\ nSaves' <= MaxOtpSaves
OtpRegenerate ==
  \E id \in 1..MaxBookings, otpCode \in OtpCodes :
    GenerateNewOTP(id, otpCode) /\ nSaves' <= MaxOtpSaves
OtpComplete ==
  \E id \in 1..MaxBookings :
    CompleteBooking(id, NoPayment, FALSE) /\ nSaves' <= MaxOtpSaves

NextOtp ==
  \/ OtpCreate
  \/ OtpVerify
  \/ OtpRegenerate
  \/ OtpComplete
  \/ Tick

SpecOtp == InitBook /\ [][NextOtp]_vars

(* Customers: created by the customer service or by a booking, soft        *)
(* deleted once none of their bookings is active.                          *)
MaxCustSaves == 4

CustCreate ==
  \E phone \in Phones :
    CreateCustomer(phone, <<>>) /\ nSaves' <= MaxCustSaves
CustDelete ==
  \E cid \in 1..Cardinality(Phones), reason \in DeleteReasons :
    DeleteCustomer(cid, reason) /\ nSaves' <= MaxCustSaves
CustBook ==
  \E pv \in CreateInputs :
    CreateBooking(pv, "M002", 1, "100000") /\ nSaves' <= MaxCustSaves
CustComplete ==
  \E id \in 1..MaxBookings :
    CompleteBooking(id, NoPayment, FALSE) /\ nSaves' <= MaxCustSaves

NextCust ==
  \/ CustCreate
  \/ CustDelete
  \/ CustBook
  \/ CustComplete

SpecCust == InitBook /\ [][NextCust]_vars

(* The vehicles of the customers: one phone, the plates of Plates.        *)
MaxVehSaves == 3
MaxVehicles == 2

VehCreate ==
  \E vehicles \in {<<>>, <<"ka01">>} :
    CreateCustomer("9000000001", vehicles) /\ nSaves' <= MaxVehSaves
VehAdd ==
  \E cid \in 1..Cardinality(Phones), v \in Plates :
    /\ AddCustomerVehicle(cid, v)
    /\ nSaves' <= MaxVehSaves
    /\ \A c \in DOMAIN customerDocs' :
         Len(customerDocs'[c].vehicles) <= MaxVehicles
VehUpdate ==
  \E cid \in 1..Cardinality(Phones), vid \in 1..MaxVehicles, v \in Plates :
    UpdateCustomerVehicle(cid, vid, v) /\ nSaves' <= MaxVehSaves
VehRemove ==
  \E cid \in 1..Cardinality(Phones), vid \in 1..MaxVehicles :
    RemoveCustomerVehicle(cid, vid) /\ nSaves' <= MaxVehSaves
VehBook ==
  \E v \in Plates :
    /\ CreateBooking(<<"9000000001", v>>, "M002", 1, "100000")
    /\ nSaves' <= MaxVehSaves
    /\ \A c \in DOMAIN customerDocs' :
         Len(customerDocs'[c].vehicles) <= MaxVehicles

NextVeh ==
  \/ VehCreate
  \/ VehAdd
  \/ VehUpdate
  \/ VehRemove
  \/ VehBook

SpecVeh == InitBook /\ [][NextVeh]_vars

(* Memberships.  A customer carries one membership block; the ledger of   *)
(* MembershipPayment rows is append-only.  Dates are minutes on the       *)
(* clock, a month is MinutesPerMonth of them.                              *)
MembershipNumbers == {100000, 999999}
(* the PIN a membership draws, the PINs a validation presents *)
Pins == {1000}
PinInputs == {1000, 9999}
MembershipTypes == {"yearly"}
Terms == {2}
CoverageInputs == (SUBSET MachineTypes) \ {{}}
MinutesPerMonth == 30 * 24 * 60
MaxMonths == 2

(* expiryDate.setMonth(expiryDate.getMonth() + validityTerm) *)
addMonths(t, validityTerm) == t + validityTerm * MinutesPerMonth

(* membership.isActive && membership.expiryDate > new Date() *)
hasActiveMembership(c, t) ==
  c.membership.isActive /\ c.membership.expiryDate > t

(* findOne({ membershipNumber, isActive: true }) of the uniqueness check:  *)
(* expired memberships still hold their number, deactivated ones do not    *)
membershipNumberInUse(docs, number) ==
  \E i \in DOMAIN docs :
    /\ docs[i].membership.isActive
    /\ docs[i].membership.membershipNumber = number

(* the block written for a fresh membership *)
newMembership(membershipType, validityTerm, vehicleTypes, number, pin, t) ==
  [membershipNumber |-> number, pin |-> pin,
   membershipType |-> membershipType, vehicleTypes |-> vehicleTypes,
   issuedDate |-> t, expiryDate |-> addMonths(t, validityTerm),
   validityTerm |-> validityTerm, isActive |-> TRUE]

(* what customer.createMembership does with the requested coverage: with   *)
(* an active, unexpired membership a request that adds no vehicle type is  *)
(* refused and any other one extends the block in place; without one a     *)
(* fresh block is written                                                  *)
coverageOutcome(c, vehicleTypes, t) ==
  IF ~hasActiveMembership(c, t) THEN "fresh"
  ELSE IF vehicleTypes \subseteq c.membership.vehicleTypes
       THEN "AlreadyCovered"
       ELSE "extend"

(* customer.createMembership(membershipType, validityTerm, createdBy,      *)
(* vehicleTypes) with the number and PIN it drew                           *)
createMembership(c, membershipType, validityTerm, vehicleTypes, number, pin, t) ==
  CASE coverageOutcome(c, vehicleTypes, t) = "extend" ->
         [c EXCEPT !.membership.vehicleTypes = @ \cup vehicleTypes]
    [] coverageOutcome(c, vehicleTypes, t) = "fresh" ->
         [c EXCEPT !.membership =
            newMembership(membershipType, validityTerm, vehicleTypes,
                          number, pin, t)]
    [] OTHER -> c

(* customer.deactivateMembership() *)
deactivateMembership(c) == [c EXCEPT !.membership.isActive = FALSE]

(* Customer.validateMembershipCredentials(membershipNumber, pin): the      *)
(* customers the findOne can answer with                                   *)
validateMembershipCredentials(docs, number, pin, t) ==
  {i \in DOMAIN docs :
     /\ docs[i].membership.membershipNumber = number
     /\ docs[i].membership.pin = pin
     /\ docs[i].membership.isActive
     /\ docs[i].membership.expiryDate > t
     /\ docs[i].status = ACTIVE}

(* !bookingVehicleType || (membership.vehicleTypes &&                      *)
(*                         membership.vehicleTypes.includes(type))         *)
coversVehicleType(c, bookingVehicleType) ==
  \/ bookingVehicleType = ""
  \/ bookingVehicleType \in c.membership.vehicleTypes

(* the default amounts of createCustomerMembership *)
membershipPrice(membershipType) ==
  CASE membershipType = "monthly" -> 500
    [] membershipType = "quarterly" -> 1200
    [] membershipType = "yearly" -> 4000
    [] membershipType = "premium" -> 6000
    [] OTHER -> 500

(* a ledger row saved as pending *)
newMembershipPayment_pending(customerId, c, membershipType, vehicleTypes) ==
  [customerId |-> customerId, customerPhone |-> c.phoneNumber,
   membershipNumber |-> c.membership.membershipNumber,
   membershipType |-> membershipType,
   amount |-> membershipPrice(membershipType), paymentMethod |-> "cash",
   startDate |-> c.membership.issuedDate,
   expiryDate |-> c.membership.expiryDate,
   vehicleTypes |-> vehicleTypes, status |-> PENDING]

(* new MembershipPayment({...}) of createCustomerMembership, c being the   *)
(* customer after createMembership                                         *)
newMembershipPayment(customerId, c, membershipType, vehicleTypes) ==
  [customerId |-> customerId, customerPhone |-> c.phoneNumber,
   membershipNumber |-> c.membership.membershipNumber,
   membershipType |-> membershipType,
   amount |-> membershipPrice(membershipType), paymentMethod |-> "cash",
   startDate |-> c.membership.issuedDate,
   expiryDate |-> c.membership.expiryDate,
   vehicleTypes |-> vehicleTypes, status |-> COMPLETED]

(* the response of a membership request *)
MembershipResponse(op, result, id, number, pin, vehicleType, vehicleTypes) ==
  [NoBookingRequest EXCEPT !.op = op, !.result = result, !.id = id,
                           !.membershipNumber = number, !.pin = pin,
                           !.vehicleType = vehicleType,
                           !.vehicleTypes = vehicleTypes]

(* CustomerService.createCustomerMembership, run without another request   *)
(* in between.  A drawn number that an active membership holds is drawn    *)
(* again, so the request goes on with a number that none holds.            *)
CreateCustomerMembership(cid, membershipType, validityTerm, vehicleTypes, number, pin) ==
    /\ UNCHANGED <<machine, last, bookingDocs, clock, inflight, batch,
                   userDocs, siteDocs, machineDocs>>
    /\ IF cid \notin DOMAIN customerDocs
       THEN /\ breq' = MembershipResponse("createMembership",
                         "CustomerNotFound", cid, 0, 0, "", vehicleTypes)
            /\ UNCHANGED <<customerDocs, paymentDocs, nSaves>>
       ELSE IF customerDocs[cid].status # ACTIVE
       THEN /\ breq' = MembershipResponse("createMembership",
                         "InactiveCustomer", cid, 0, 0, "", vehicleTypes)
            /\ UNCHANGED <<customerDocs, paymentDocs, nSaves>>
       ELSE IF coverageOutcome(customerDocs[cid], vehicleTypes, clock)
                 = "AlreadyCovered"
       THEN /\ breq' = MembershipResponse("createMembership",
                         "AlreadyCovered", cid, 0, 0, "", vehicleTypes)
            /\ UNCHANGED <<customerDocs, paymentDocs, nSaves>>
       ELSE LET c == createMembership(customerDocs[cid], membershipType,
                         validityTerm, vehicleTypes, number, pin, clock)
            IN /\ coverageOutcome(customerDocs[cid], vehicleTypes, clock)
                    = "fresh"
                  => ~membershipNumberInUse(customerDocs, number)
               /\ customerDocs' = [customerDocs EXCEPT ![cid] = c]
               /\ paymentDocs' =
                    Append(paymentDocs,
                           newMembershipPayment(cid, c, membershipType,
                                                vehicleTypes))
               /\ nSaves' = nSaves + 1
               /\ breq' = MembershipResponse("createMembership", "ok", cid,
                            c.membership.membershipNumber, c.membership.pin,
                            "", vehicleTypes)

(* CustomerService.validateVehicleMembershipCredentials *)
ValidateMembership(number, pin, bookingVehicleType) ==
    LET matches == validateMembershipCredentials(customerDocs, number, pin,
                                                 clock)
    IN /\ UNCHANGED <<machine, last, nSaves, bookingDocs, customerDocs,
                      clock, inflight, batch, orgVars>>
       /\ IF matches = {}
          THEN breq' = MembershipResponse("validateMembership", "null", 0,
                         number, pin, bookingVehicleType, {})
          ELSE \E i \in matches :
                 breq' = IF coversVehicleType(customerDocs[i],
                                              bookingVehicleType)
                         THEN MembershipResponse("validateMembership", "ok",
                                i, number, pin, bookingVehicleType, {})
                         ELSE MembershipResponse("validateMembership",
                                "null", 0, number, pin, bookingVehicleType,
                                {})

(* CustomerService.deactivateCustomerMembership *)
DeactivateCustomerMembership(cid) ==
    /\ UNCHANGED <<machine, last, bookingDocs, clock, inflight, batch,
                   orgVars>>
    /\ IF cid \notin DOMAIN customerDocs
       THEN /\ breq' = MembershipResponse("deactivateMembership",
                         "CustomerNotFound", cid, 0, 0, "", {})
            /\ UNCHANGED <<customerDocs, nSaves>>
       ELSE IF ~customerDocs[cid].membership.isActive
       THEN /\ breq' = MembershipResponse("deactivateMembership",
                         "NoActiveMembership", cid, 0, 0, "", {})
            /\ UNCHANGED <<customerDocs, nSaves>>
       ELSE /\ customerDocs' =
                 [customerDocs EXCEPT
                    ![cid] = deactivateMembership(customerDocs[cid])]
            /\ nSaves' = nSaves + 1
            /\ breq' = MembershipResponse("deactivateMembership", "ok", cid,
                         customerDocs[cid].membership.membershipNumber,
                         customerDocs[cid].membership.pin, "", {})

(* a month passes; nothing runs when a membership expires *)
MonthPasses ==
    /\ clock + MinutesPerMonth <= MaxMonths * MinutesPerMonth
    /\ clock' = clock + MinutesPerMonth
    /\ UNCHANGED <<machine, last, nSaves, inflight, batch, orgVars,
                   bookingDocs, customerDocs, breq>>

(* The membership engine, one request at a time. *)
MaxMemSaves == 3

MemCustomer ==
  \E phone \in Phones :
    CreateCustomer(phone, <<>>) /\ nSaves' <= MaxMemSaves
MemCreate ==
  \E cid \in 1..Cardinality(Phones), ty \in MembershipTypes, term \in Terms,
     types \in CoverageInputs, number \in MembershipNumbers, pin \in Pins :
    /\ CreateCustomerMembership(cid, ty, term, types, number, pin)
    /\ nSaves' <= MaxMemSaves
MemValidate ==
  \E number \in MembershipNumbers, pin \in PinInputs,
     type \in MachineTypes \cup {""} :
    ValidateMembership(number, pin, type) /\ nSaves' <= MaxMemSaves
MemDeactivate ==
  \E cid \in 1..Cardinality(Phones) :
    DeactivateCustomerMembership(cid) /\ nSaves' <= MaxMemSaves
MemDelete ==
  \E cid \in 1..Cardinality(Phones) :
    DeleteCustomer(cid, "") /\ nSaves' <= MaxMemSaves

NextMem ==
  \/ MemCustomer
  \/ MemCreate
  \/ MemValidate
  \/ MemDeactivate
  \/ MemDelete
  \/ MonthPasses

(* the stores empty; the machine plays no part *)
InitMem ==
  /\ InitBook
  /\ machine = createMachine("four-wheeler", "rotary", NumPallets)

SpecMem == InitMem /\ [][NextMem]_vars

(* Two CreateMembership requests in flight.  A request is two round trips  *)
(* to the store after the customer is loaded: the findOne that looks for   *)
(* an active membership with the drawn number, and the save of the         *)
(* customer; the ledger row follows the save.  The index on the membership *)
(* number is not unique, so the save is never refused.                     *)

(* createCustomerMembership up to the answer of the uniqueness findOne *)
CheckMembershipNumber(w, cid, membershipType, validityTerm, vehicleTypes, number, pin) ==
    /\ inflight[w] = Idle
    /\ UNCHANGED <<machine, last, nSaves, bookingDocs, customerDocs, clock,
                   batch, orgVars>>
    /\ IF cid \notin DOMAIN customerDocs
       THEN /\ breq' = MembershipResponse("createMembership",
                         "CustomerNotFound", cid, 0, 0, "", vehicleTypes)
            /\ UNCHANGED inflight
       ELSE IF customerDocs[cid].status # ACTIVE
       THEN /\ breq' = MembershipResponse("createMembership",
                         "InactiveCustomer", cid, 0, 0, "", vehicleTypes)
            /\ UNCHANGED inflight
       ELSE IF coverageOutcome(customerDocs[cid], vehicleTypes, clock)
                 = "AlreadyCovered"
       THEN /\ breq' = MembershipResponse("createMembership",
                         "AlreadyCovered", cid, 0, 0, "", vehicleTypes)
            /\ UNCHANGED inflight
       ELSE /\ coverageOutcome(customerDocs[cid], vehicleTypes, clock)
                 = "fresh"
               => ~membershipNumberInUse(customerDocs, number)
            /\ inflight' =
                 [inflight EXCEPT
                    ![w] = [Idle EXCEPT
                              !.pc = "checked",
                              !.op = "createMembership",
                              !.key = cid,
                              !.doc =
                                [customer |->
                                   createMembership(customerDocs[cid],
                                     membershipType, validityTerm,
                                     vehicleTypes, number, pin, clock),
                                 membershipType |-> membershipType,
                                 vehicleTypes |-> vehicleTypes]]]
            /\ UNCHANGED breq

(* createCustomerMembership from this.save() on *)
SaveMembership(w) ==
    LET cid == inflight[w].key
        c == inflight[w].doc.customer
    IN /\ inflight[w].pc = "checked"
       /\ inflight[w].op = "createMembership"
       /\ inflight' = [inflight EXCEPT ![w] = Idle]
       /\ UNCHANGED <<machine, last, bookingDocs, clock, batch, userDocs,
                      siteDocs, machineDocs>>
       /\ customerDocs' = [customerDocs EXCEPT ![cid].membership = c.membership]
       /\ paymentDocs' =
            Append(paymentDocs,
                   newMembershipPayment(cid, c, inflight[w].doc.membershipType,
                                        inflight[w].doc.vehicleTypes))
       /\ nSaves' = nSaves + 1
       /\ breq' = MembershipResponse("createMembership", "ok", cid,
                    c.membership.membershipNumber, c.membership.pin, "",
                    inflight[w].doc.vehicleTypes)

MaxMemConcSaves == 4

ConcCustomer ==
  \E phone \in Phones :
    CreateCustomer(phone, <<>>) /\ nSaves' <= MaxMemConcSaves
ConcCheck ==
  \E w \in Workers, cid \in 1..Cardinality(Phones), ty \in MembershipTypes,
     term \in Terms, type \in MachineTypes, number \in MembershipNumbers,
     pin \in Pins :
    /\ CheckMembershipNumber(w, cid, ty, term, {type}, number, pin)
    /\ nSaves' <= MaxMemConcSaves
ConcSave ==
  \E w \in Workers : SaveMembership(w) /\ nSaves' <= MaxMemConcSaves
ConcValidate ==
  \E number \in MembershipNumbers, pin \in Pins, type \in MachineTypes :
    ValidateMembership(number, pin, type) /\ nSaves' <= MaxMemConcSaves

NextMemConc ==
  \/ ConcCustomer
  \/ ConcCheck
  \/ ConcSave
  \/ ConcValidate

SpecMemConc == InitMem /\ [][NextMemConc]_vars

----------------------------------------------------------------------------
(* Sites, users and site scoping.  A user carries its global role, the     *)
(* list of its site assignments and its primary site (0 when there is      *)
(* none); every request loads the acting user afresh.  A machine of a site *)
(* is a machine document with the site it belongs to.                      *)
MaxSites == 2
MaxUsers == 2
MaxOrgSaves == 6

GlobalRoles == {"admin", "operator"}
SiteRoles == {"operator", "supervisor"}
PermissionInputs == {<<"create_booking">>}

(* A date 30 days ahead does not fit the integers of the model as a count  *)
(* of milliseconds: it is the pair of its day and its millisecond of the   *)
(* day; the date that is not set is the first instant.                     *)
DayMs == 24 * 60 * 60 * 1000
NoDate == [day |-> 0, ms |-> 0]

(* new Date(t + days * 24 * 60 * 60 * 1000) *)
dateAfterDays(t, days) == [day |-> t \div DayMs + days, ms |-> t % DayMs]

(* date < new Date(t) *)
dateBefore(date, t) ==
  \/ date.day < t \div DayMs
  \/ date.day = t \div DayMs /\ date.ms < t % DayMs

(* the user record the identity provider hands to the controllers *)
newUser(role) ==
  [role |-> role, assignedSites |-> <<>>, primarySite |-> 0,
   status |-> ACTIVE, loginAttempts |-> 0, lockUntil |-> 0,
   refreshToken |-> NoToken, refreshTokenExpiresAt |-> NoDate]

(* Authentication.  The clock of the requests of the identity provider     *)
(* counts milliseconds, as Date.now() does; a date that is not set is 0.   *)
(* A message is the sequence of its words.                                 *)
MaxLoginAttempts == 5
LockMs == 2 * 60 * 60 * 1000
RefreshTtlDays == 30

InvalidRefreshToken == <<"Invalid", "refresh", "token">>
RefreshTokenExpired == <<"Refresh", "token", "expired">>
AccountNotActive == <<"Account", "is", "not", "active">>

(* String.prototype.includes on the messages of the model: the match is    *)
(* case-sensitive, and no message holds a needle inside a longer word      *)
includes(message, word) == \E i \in DOMAIN message : message[i] = word

(* userSchema.virtual('isLocked') *)
isLocked(user, t) == user.lockUntil # 0 /\ user.lockUntil > t

(* a counter that never sets the lock *)
incrementLoginAttempts_neverLocks(user, t) ==
  IF user.lockUntil # 0 /\ user.lockUntil < t
  THEN [user EXCEPT !.lockUntil = 0, !.loginAttempts = 1]
  ELSE [user EXCEPT !.loginAttempts = @ + 1]

(* userSchema.methods.incrementLoginAttempts at the instant t *)
incrementLoginAttempts(user, t) ==
  IF user.lockUntil # 0 /\ user.lockUntil < t
  THEN [user EXCEPT !.lockUntil = 0, !.loginAttempts = 1]
  ELSE [user EXCEPT
          !.loginAttempts = @ + 1,
          !.lockUntil = IF user.loginAttempts + 1 >= MaxLoginAttempts
                           /\ ~isLocked(user, t)
                        THEN t + LockMs
                        ELSE @]

(* userSchema.methods.resetLoginAttempts: the unset counter reads as its   *)
(* default                                                                 *)
resetLoginAttempts(user) == [user EXCEPT !.loginAttempts = 0, !.lockUntil = 0]

(* JWTConfig.generateRefreshToken: jwt.sign stamps the payload with the    *)
(* second of issue, and the signature is a function of the stamped         *)
(* payload, so two tokens of one user signed in one second are one string  *)
generateRefreshToken(userId, t) == [userId |-> userId, iat |-> t \div 1000]

(* JWTConfig.verifyRefreshToken: the message of the error, <<>> when the   *)
(* token verifies                                                          *)
verifyRefreshToken(token, t) ==
  IF token.userId = 0 THEN InvalidRefreshToken
  ELSE IF t \div 1000 >= token.iat + RefreshTtlDays * 24 * 60 * 60
       THEN RefreshTokenExpired
       ELSE <<>>

(* the try block of AuthService.refreshToken up to the new token pair: the *)
(* message of the error it throws, <<>> when it throws none                *)
refreshError(docs, token, t) ==
  LET verified == verifyRefreshToken(token, t)
  IN  IF verified # <<>> THEN verified
      ELSE IF token.userId \notin DOMAIN docs
                \/ docs[token.userId].refreshToken # token
           THEN InvalidRefreshToken
      ELSE IF dateBefore(docs[token.userId].refreshTokenExpiresAt, t)
           THEN RefreshTokenExpired
      ELSE IF docs[token.userId].status # ACTIVE THEN AccountNotActive
      ELSE <<>>

(* the catch block of AuthService.refreshToken: the status of the AppError *)
(* it throws for the message of the error it caught                        *)
refreshStatus(message) ==
  IF message = <<>> THEN 200
  ELSE IF includes(message, "expired") \/ includes(message, "invalid")
       THEN 401
       ELSE 500

(* savedUser of AuthService.register: the user with the refresh token of   *)
(* its registration                                                        *)
registeredUser(role, userId, t) ==
  [newUser(role) EXCEPT !.refreshToken = generateRefreshToken(userId, t),
                        !.refreshTokenExpiresAt = dateAfterDays(t, RefreshTtlDays)]

(* new Site({...}) *)
newSite == [stored |-> TRUE, status |-> ACTIVE]

(* new Machine({...machineData}) of createMachine: one pallet *)
newSiteMachine(siteId) ==
  [stored |-> TRUE, siteId |-> siteId,
   doc |-> createMachine("four-wheeler", "rotary", 1)]

siteExists(docs, siteId) == siteId \in DOMAIN docs /\ docs[siteId].stored

(* user.assignedSites.find(a => a.site.toString() === siteId) *)
findAssignment(user, siteId) ==
  firstIndex({i \in DOMAIN user.assignedSites :
                user.assignedSites[i].site = siteId})

(* an assignment that is pushed without looking for an existing one *)
assignUserToSite_alwaysPush(user, siteId, role, permissions) ==
  [user EXCEPT
     !.assignedSites = Append(@, [site |-> siteId, role |-> role,
                                  permissions |-> permissions]),
     !.primarySite = IF @ = 0 THEN siteId ELSE @]

(* the body of assignUserToSite on the loaded user *)
assignUserToSite(user, siteId, role, permissions) ==
  IF findAssignment(user, siteId) # 0
  THEN [user EXCEPT
          !.assignedSites[findAssignment(user, siteId)].role = role,
          !.assignedSites[findAssignment(user, siteId)].permissions =
            permissions]
  ELSE [user EXCEPT
          !.assignedSites = Append(@, [site |-> siteId, role |-> role,
                                       permissions |-> permissions]),
          !.primarySite = IF @ = 0 THEN siteId ELSE @]

(* assignedSites.filter(a => a.site.toString() !== siteId), and the $pull  *)
(* of deleteSitePermanently                                                *)
RECURSIVE withoutSite(_, _)
withoutSite(assignments, siteId) ==
  IF assignments = <<>> THEN <<>>
  ELSE IF Head(assignments).site = siteId
       THEN withoutSite(Tail(assignments), siteId)
       ELSE <<Head(assignments)>> \o withoutSite(Tail(assignments), siteId)

(* the body of removeUserFromSite on the loaded user *)
removeUserFromSite_keepsPrimary(user, siteId) ==
  [user EXCEPT !.assignedSites = withoutSite(@, siteId)]

removeUserFromSite(user, siteId) ==
  LET rest == withoutSite(user.assignedSites, siteId)
  IN [user EXCEPT
        !.assignedSites = rest,
        !.primarySite = IF @ # 0 /\ @ = siteId
                        THEN (IF Len(rest) > 0 THEN rest[1].site ELSE 0)
                        ELSE @]

(* User.updateMany({ 'assignedSites.site': siteId },                       *)
(*   { $pull: { assignedSites: { site: siteId } },                         *)
(*     $unset: { primarySite: 1 } }) on one user                           *)
stripSite(user, siteId) ==
  IF findAssignment(user, siteId) = 0 THEN user
  ELSE [user EXCEPT !.assignedSites = withoutSite(@, siteId),
                    !.primarySite = 0]

(* the access test of getSiteById and getSiteStatistics taken for every    *)
(* user, admin or not                                                      *)
siteAccess_noAdminBypass(user, id) ==
  \E i \in DOMAIN user.assignedSites : user.assignedSites[i].site = id

(* the access test of getSiteById and getSiteStatistics *)
siteAccess(user, id) ==
  \/ user.role = "admin"
  \/ \E i \in DOMAIN user.assignedSites : user.assignedSites[i].site = id

(* the access test of updateSite *)
siteUpdateAccess(user, id) ==
  \/ user.role = "admin"
  \/ \E i \in DOMAIN user.assignedSites :
       /\ user.assignedSites[i].site = id
       /\ user.assignedSites[i].role \in {"site-admin", "supervisor"}

(* userSiteIds of the machine controller *)
userSiteIds(user) ==
  {user.assignedSites[i].site : i \in DOMAIN user.assignedSites}
    \cup (IF user.primarySite # 0 THEN {user.primarySite} ELSE {})

(* the access test of getMachineById *)
machineAccess(user, m) ==
  user.role = "admin" \/ m.siteId \in userSiteIds(user)

(* Machine.countDocuments({ siteId }) *)
machineCount(docs, siteId) ==
  Cardinality({i \in DOMAIN docs : docs[i].stored /\ docs[i].siteId = siteId})

(* Booking.countDocuments({ siteId }): the booking documents carry no      *)
(* siteId, so the filter matches none of them or, when the unknown path is *)
(* dropped from the filter, all of them                                    *)
siteBookingCounts(docs) ==
  {0, Cardinality({i \in DOMAIN docs : docs[i].stored})}

(* the response of a site, user or machine request *)
OrgResponse(op, result, id, user) ==
  [NoBookingRequest EXCEPT !.op = op, !.result = result, !.id = id,
                           !.user = user]

(* AuthService.register *)
CreateUser(role) ==
    /\ userDocs' =
         Append(userDocs, registeredUser(role, Len(userDocs) + 1, clock))
    /\ nSaves' = nSaves + 1
    /\ breq' = [OrgResponse("register", "ok", 0, Len(userDocs) + 1)
                 EXCEPT !.token = generateRefreshToken(Len(userDocs) + 1, clock),
                        !.held = {generateRefreshToken(Len(userDocs) + 1,
                                                       clock)}]
    /\ UNCHANGED <<machine, last, inflight, batch, bookingDocs, customerDocs,
                   clock, paymentDocs, siteDocs, machineDocs>>

(* SiteService.createSite with a site ID that no site has *)
CreateSite ==
    /\ siteDocs' = Append(siteDocs, newSite)
    /\ nSaves' = nSaves + 1
    /\ breq' = OrgResponse("createSite", "ok", Len(siteDocs) + 1, 0)
    /\ UNCHANGED <<machine, last, inflight, batch, bookingDocs, customerDocs,
                   clock, paymentDocs, userDocs, machineDocs>>

(* MachineService.createMachine with a machine number new at the site *)
CreateMachine(siteId) ==
    /\ UNCHANGED <<machine, last, inflight, batch, bookingDocs, customerDocs,
                   clock, paymentDocs, userDocs, siteDocs>>
    /\ IF ~siteExists(siteDocs, siteId)
       THEN /\ breq' = OrgResponse("createMachine", "SiteNotFound", siteId, 0)
            /\ UNCHANGED <<machineDocs, nSaves>>
       ELSE /\ machineDocs' = Append(machineDocs, newSiteMachine(siteId))
            /\ nSaves' = nSaves + 1
            /\ breq' = OrgResponse("createMachine", "ok", siteId, 0)

(* SiteService.assignUserToSite *)
AssignUserToSite(siteId, userId, role, permissions) ==
    /\ UNCHANGED <<machine, last, inflight, batch, bookingDocs, customerDocs,
                   clock, paymentDocs, siteDocs, machineDocs>>
    /\ IF ~siteExists(siteDocs, siteId)
       THEN /\ breq' = [OrgResponse("assignUserToSite", "SiteNotFound",
                                    siteId, userId)
                          EXCEPT !.role = role, !.permissions = permissions]
            /\ UNCHANGED <<userDocs, nSaves>>
       ELSE IF userId \notin DOMAIN userDocs
       THEN /\ breq' = [OrgResponse("assignUserToSite", "UserNotFound",
                                    siteId, userId)
                          EXCEPT !.role = role, !.permissions = permissions]
            /\ UNCHANGED <<userDocs, nSaves>>
       ELSE /\ userDocs' =
                 [userDocs EXCEPT
                    ![userId] = assignUserToSite(userDocs[userId], siteId,
                                                 role, permissions)]
            /\ nSaves' = nSaves + 1
            /\ breq' = [OrgResponse("assignUserToSite", "ok", siteId, userId)
                          EXCEPT !.role = role, !.permissions = permissions]

(* SiteService.removeUserFromSite *)
RemoveUserFromSite(siteId, userId) ==
    /\ UNCHANGED <<machine, last, inflight, batch, bookingDocs, customerDocs,
                   clock, paymentDocs, siteDocs, machineDocs>>
    /\ IF userId \notin DOMAIN userDocs
       THEN /\ breq' = OrgResponse("removeUserFromSite", "UserNotFound",
                                   siteId, userId)
            /\ UNCHANGED <<userDocs, nSaves>>
       ELSE /\ userDocs' =
                 [userDocs EXCEPT
                    ![userId] = removeUserFromSite(userDocs[userId], siteId)]
            /\ nSaves' = nSaves + 1
            /\ breq' = OrgResponse("removeUserFromSite", "ok", siteId, userId)

(* SiteService.deleteSitePermanently: the counts, then one transaction *)
DeleteSitePermanently(siteId, force) ==
    /\ UNCHANGED <<machine, last, inflight, batch, customerDocs, clock,
                   paymentDocs>>
    /\ IF ~siteExists(siteDocs, siteId)
       THEN /\ breq' = [OrgResponse("deleteSitePermanently", "SiteNotFound",
                                    siteId, 0) EXCEPT !.force = force]
            /\ UNCHANGED <<userDocs, siteDocs, machineDocs, bookingDocs,
                           nSaves>>
       ELSE \E totalBookings \in siteBookingCounts(bookingDocs) :
              IF (totalBookings > 0 \/ machineCount(machineDocs, siteId) > 0)
                 /\ ~force
              THEN /\ breq' = [OrgResponse("deleteSitePermanently",
                                           "SiteInUse", siteId, 0)
                                 EXCEPT !.force = force]
                   /\ UNCHANGED <<userDocs, siteDocs, machineDocs,
                                  bookingDocs, nSaves>>
              ELSE /\ machineDocs' =
                        [i \in DOMAIN machineDocs |->
                           IF machineDocs[i].siteId = siteId
                           THEN [machineDocs[i] EXCEPT !.stored = FALSE]
                           ELSE machineDocs[i]]
                   /\ bookingDocs' =
                        IF totalBookings > 0
                        THEN [i \in DOMAIN bookingDocs |->
                                [bookingDocs[i] EXCEPT !.stored = FALSE]]
                        ELSE bookingDocs
                   /\ userDocs' =
                        [u \in DOMAIN userDocs |->
                           stripSite(userDocs[u], siteId)]
                   /\ siteDocs' = [siteDocs EXCEPT ![siteId].stored = FALSE]
                   /\ nSaves' = nSaves + 1
                   /\ breq' = [OrgResponse("deleteSitePermanently", "ok",
                                           siteId, 0) EXCEPT !.force = force]

(* SiteController.getSiteById and getSiteStatistics (op names which) *)
ReadSite(op, userId, id) ==
    /\ userId \in DOMAIN userDocs
    /\ UNCHANGED <<machine, last, nSaves, inflight, batch, bookingDocs,
                   customerDocs, clock, orgVars>>
    /\ breq' = IF ~siteAccess(userDocs[userId], id)
               THEN OrgResponse(op, "Forbidden", id, userId)
               ELSE IF ~siteExists(siteDocs, id)
               THEN OrgResponse(op, "SiteNotFound", id, userId)
               ELSE OrgResponse(op, "ok", id, userId)

(* SiteController.updateSite; the fields it writes are not modelled *)
UpdateSite(userId, id) ==
    /\ userId \in DOMAIN userDocs
    /\ UNCHANGED <<machine, last, inflight, batch, bookingDocs, customerDocs,
                   clock, orgVars>>
    /\ IF ~siteUpdateAccess(userDocs[userId], id)
       THEN /\ breq' = OrgResponse("updateSite", "Forbidden", id, userId)
            /\ UNCHANGED nSaves
       ELSE IF ~siteExists(siteDocs, id)
       THEN /\ breq' = OrgResponse("updateSite", "SiteNotFound", id, userId)
            /\ UNCHANGED nSaves
       ELSE /\ breq' = OrgResponse("updateSite", "ok", id, userId)
            /\ nSaves' = nSaves + 1

(* MachineController.getMachineById *)
GetMachineById(userId, id) ==
    /\ userId \in DOMAIN userDocs
    /\ UNCHANGED <<machine, last, nSaves, inflight, batch, bookingDocs,
                   customerDocs, clock, orgVars>>
    /\ breq' = IF ~(id \in DOMAIN machineDocs /\ machineDocs[id].stored)
               THEN OrgResponse("getMachineById", "MachineNotFound", id,
                                userId)
               ELSE IF ~machineAccess(userDocs[userId], machineDocs[id])
               THEN OrgResponse("getMachineById", "Forbidden", id, userId)
               ELSE OrgResponse("getMachineById", "ok", id, userId)

(* MachineController.occupyPallet: the route lets every role in and the    *)
(* controller hands the request to the service                             *)
OccupySiteMachine(userId, id, bookingId, vehicleNumber) ==
    /\ userId \in DOMAIN userDocs
    /\ UNCHANGED <<machine, last, inflight, batch, bookingDocs, customerDocs,
                   clock, paymentDocs, userDocs, siteDocs>>
    /\ IF ~(id \in DOMAIN machineDocs /\ machineDocs[id].stored)
       THEN /\ breq' = OrgResponse("occupyPallet", "MachineNotFound", id,
                                   userId)
            /\ UNCHANGED <<machineDocs, nSaves>>
       ELSE LET r == serviceOccupyPallet(machineDocs[id].doc, 1, bookingId,
                                         vehicleNumber, 0)
            IN /\ machineDocs' = [machineDocs EXCEPT ![id].doc = r.machine]
               /\ nSaves' = IF r.error = "ok" THEN nSaves + 1 ELSE nSaves
               /\ breq' = OrgResponse("occupyPallet", r.error, id, userId)

OrgUser ==
  \E role \in GlobalRoles :
    CreateUser(role) /\ Len(userDocs') <= MaxUsers /\ nSaves' <= MaxOrgSaves
OrgSite ==
  CreateSite /\ Len(siteDocs') <= MaxSites /\ nSaves' <= MaxOrgSaves
OrgMachine ==
  \E siteId \in 1..MaxSites :
    /\ CreateMachine(siteId)
    /\ Len(machineDocs') <= 1
    /\ nSaves' <= MaxOrgSaves
OrgAssign ==
  \E siteId \in 1..MaxSites, userId \in 1..MaxUsers, role \in SiteRoles,
     permissions \in PermissionInputs :
    /\ AssignUserToSite(siteId, userId, role, permissions)
    /\ nSaves' <= MaxOrgSaves
OrgRemove ==
  \E siteId \in 1..MaxSites, userId \in 1..MaxUsers :
    RemoveUserFromSite(siteId, userId) /\ nSaves' <= MaxOrgSaves
OrgDelete ==
  \E siteId \in 1..MaxSites, force \in BOOLEAN :
    DeleteSitePermanently(siteId, force) /\ nSaves' <= MaxOrgSaves
NextOrg ==
  \/ OrgUser
  \/ OrgSite
  \/ OrgMachine
  \/ OrgAssign
  \/ OrgRemove
  \/ OrgDelete

SpecOrg == InitMem /\ [][NextOrg]_vars

(* The requests of the users against the sites and the machine, between    *)
(* the assignments.                                                        *)
MaxScopeSaves == 4

ScopeUser ==
  \E role \in GlobalRoles :
    CreateUser(role) /\ Len(userDocs') <= MaxUsers /\ nSaves' <= MaxScopeSaves
ScopeSite ==
  CreateSite /\ Len(siteDocs') <= MaxSites /\ nSaves' <= MaxScopeSaves
ScopeMachine ==
  \E siteId \in 1..MaxSites :
    /\ CreateMachine(siteId)
    /\ Len(machineDocs') <= 1
    /\ nSaves' <= MaxScopeSaves
ScopeAssign ==
  \E siteId \in 1..MaxSites, userId \in 1..MaxUsers, role \in SiteRoles,
     permissions \in PermissionInputs :
    /\ AssignUserToSite(siteId, userId, role, permissions)
    /\ nSaves' <= MaxScopeSaves
ScopeRemove ==
  \E siteId \in 1..MaxSites, userId \in 1..MaxUsers :
    RemoveUserFromSite(siteId, userId) /\ nSaves' <= MaxScopeSaves
ScopeDelete ==
  \E siteId \in 1..MaxSites :
    DeleteSitePermanently(siteId, TRUE) /\ nSaves' <= MaxScopeSaves
ScopeReadSite ==
  \E op \in {"getSiteById", "getSiteStatistics"}, userId \in 1..MaxUsers,
     id \in 1..MaxSites :
    ReadSite(op, userId, id) /\ nSaves' <= MaxScopeSaves
ScopeUpdateSite ==
  \E userId \in 1..MaxUsers, id \in 1..MaxSites :
    UpdateSite(userId, id) /\ nSaves' <= MaxScopeSaves
ScopeReadMachine ==
  \E userId \in 1..MaxUsers :
    GetMachineById(userId, 1) /\ nSaves' <= MaxScopeSaves
ScopeOccupy ==
  \E userId \in 1..MaxUsers :
    OccupySiteMachine(userId, 1, 1, "ka01") /\ nSaves' <= MaxScopeSaves

NextScope ==
  \/ ScopeUser
  \/ ScopeSite
  \/ ScopeMachine
  \/ ScopeAssign
  \/ ScopeRemove
  \/ ScopeDelete
  \/ ScopeReadSite
  \/ ScopeUpdateSite
  \/ ScopeReadMachine
  \/ ScopeOccupy

SpecScope == InitMem /\ [][NextScope]_vars

(* Two VerifyOTP requests in flight.  A request is two round trips to the   *)
(* store: Booking.findByOTP loads a copy of the booking, booking.useOTP()   *)
(* checks isOTPValid on that copy and saves.  The save writes the two       *)
(* modified paths of the otp block by _id; the schema does not turn on      *)
(* optimistic concurrency and no array is modified, so the save carries no  *)
(* version condition.                                                       *)
MaxVerifySaves == 3

(* verifyOTP up to the answer of Booking.findByOTP *)
VerifyFind(w, otpCode) ==
    LET matches == findByOTP(bookingDocs, otpCode, clock)
    IN /\ inflight[w] = Idle
       /\ UNCHANGED <<machine, last, customerDocs, clock, batch, orgVars, bookingDocs,
                      nSaves>>
       /\ IF matches = {}
          THEN /\ breq' = Failed("verifyOTP", "InvalidOrExpiredOTP", 0, otpCode)
               /\ UNCHANGED inflight
          ELSE \E id \in matches :
                 /\ inflight' = [inflight EXCEPT
                                   ![w] = [Idle EXCEPT
                                             !.pc = "found",
                                             !.op = "verifyOTP",
                                             !.booking = id,
                                             !.doc = bookingDocs[id]]]
                 /\ UNCHANGED breq

(* verifyOTP from booking.useOTP() on *)
VerifyUseOTP(w) ==
    LET id == inflight[w].booking
        b == inflight[w].doc
        used == useOTP(b, clock)
    IN /\ inflight[w].pc = "found"
       /\ inflight' = [inflight EXCEPT ![w] = Idle]
       /\ UNCHANGED <<machine, last, customerDocs, clock, batch, orgVars>>
       /\ IF ~isOTPValid(b, clock)
          THEN /\ breq' = Failed("verifyOTP", "VerifyFailed", id, b.otp.code)
               /\ UNCHANGED <<bookingDocs, nSaves>>
          ELSE /\ bookingDocs' =
                    [bookingDocs EXCEPT ![id].otp.isUsed = used.otp.isUsed,
                                        ![id].otp.usedAt = used.otp.usedAt]
               /\ nSaves' = nSaves + 1
               /\ breq' = [NoBookingRequest EXCEPT
                             !.op = "verifyOTP", !.id = id,
                             !.code = b.otp.code, !.pre = b]

VerifyCreate ==
  \E pv \in CreateInputs :
    CreateBooking(pv, "M002", 1, "100000") /\ nSaves' <= MaxVerifySaves
VerifyFinds ==
  \E w \in Workers : VerifyFind(w, "100000") /\ nSaves' <= MaxVerifySaves
VerifyUses ==
  \E w \in Workers : VerifyUseOTP(w) /\ nSaves' <= MaxVerifySaves

NextVerify ==
  \/ VerifyCreate
  \/ VerifyFinds
  \/ VerifyUses
  \/ Tick

SpecVerify == InitBook /\ [][NextVerify]_vars


----------------------------------------------------------------------------
(* Helpers of the properties *)

PalletIdx == 1..NumPallets

Releases == {"release", "releaseVehicle"}

(* index of the pallet with that number in machine m; 0 when there is none *)
IdxOf(m, key) ==
  IF \E i \in DOMAIN m.pallets : m.pallets[i].number = key
  THEN CHOOSE i \in DOMAIN m.pallets : m.pallets[i].number = key
  ELSE 0

(* sum of the values of the function fn over the set S *)
RECURSIVE SumOver(_, _)
SumOver(S, fn) ==
  IF S = {} THEN 0
  ELSE LET x == CHOOSE y \in S : TRUE IN fn[x] + SumOver(S \ {x}, fn)

TypeOK ==
  /\ machine.machineType \in MachineTypes
  /\ machine.parkingType \in ParkingTypes
  /\ Len(machine.pallets) = NumPallets
  /\ nSaves \in Nat

----------------------------------------------------------------------------
(* C1: after any sequence of occupy, release, release-vehicle, maintenance *)
(* and machineType/parkingType changes, every pallet's currentOccupancy    *)
(* equals the number of entries of its currentBookings list.               *)
Thm_C1_OccupancyIsListLength ==
  \A i \in DOMAIN machine.pallets :
    machine.pallets[i].currentOccupancy = Len(machine.pallets[i].currentBookings)

(* a type change has just truncated a pallet that still holds an occupant *)
Wit_C1_AfterTruncation ==
  /\ last.op = "update"
  /\ last.removed > 0
  /\ \E i \in DOMAIN machine.pallets :
       Len(machine.pallets[i].currentBookings) >= 1

(* C2: a release that takes one occupant from a full pallet of capacity    *)
(* above 1 leaves the pallet available (status occupied iff the pallet is  *)
(* full).                                                                  *)
Cex_C2_ReleaseFromFullMakesAvailable ==
  [][(/\ last'.op \in Releases
      /\ last'.result = "ok"
      /\ last'.pre.status = OCCUPIED
      /\ last'.pre.vehicleCapacity > 1
      /\ last'.pre.currentOccupancy = last'.pre.vehicleCapacity)
     => machine'.pallets[IdxOf(machine', last'.key)].status = AVAILABLE]_vars

(* C3: every pallet satisfies 0 <= currentOccupancy <= vehicleCapacity.    *)
Thm_C3_OccupancyWithinCapacity ==
  \A i \in DOMAIN machine.pallets :
    /\ 0 <= machine.pallets[i].currentOccupancy
    /\ machine.pallets[i].currentOccupancy <= machine.pallets[i].vehicleCapacity

(* an occupy has just succeeded on a pallet that was in maintenance *)
Wit_C3_OccupiedInMaintenance ==
  /\ last.op = "occupy"
  /\ last.result = "ok"
  /\ last.pre.status = MAINTENANCE

(* C4: the occupants of one pallet hold pairwise distinct positions.       *)
Thm_C4_DistinctPositions ==
  \A i \in DOMAIN machine.pallets :
    \A j, k \in DOMAIN machine.pallets[i].currentBookings :
      j # k => machine.pallets[i].currentBookings[j].position
               # machine.pallets[i].currentBookings[k].position

(* an auto-assigned occupant has just joined an occupant placed by hint *)
Wit_C4_HintedAndAssigned ==
  /\ last.op = "occupy"
  /\ last.result = "ok"
  /\ last.hint = 0
  /\ machine.machineType = "two-wheeler"
  /\ Len(last.pre.currentBookings) >= 1
  /\ last.pre.currentBookings[1].position = 2

Thm_C6_FullPalletRefuses ==
  [][(/\ last'.op = "occupy"
      /\ IdxOf(machine, last'.key) # 0)
     => LET pallet == machine.pallets[IdxOf(machine, last'.key)]
        IN /\ (machine.status = ONLINE
                /\ pallet.currentOccupancy = pallet.vehicleCapacity)
               => (last'.result = "PalletFull" /\ machine' = machine)
           /\ (machine.machineType = "four-wheeler"
                /\ pallet.currentOccupancy >= 1)
               => (last'.result # "ok" /\ machine' = machine)]_vars

(* a second occupy on a four-wheeler pallet has just been refused *)
Wit_C6_SecondOccupyRefused ==
  /\ last.op = "occupy"
  /\ last.result = "PalletFull"
  /\ machine.machineType = "four-wheeler"
  /\ machine.pallets[IdxOf(machine, last.key)].currentOccupancy = 1

(* C7: an occupy on a pallet in maintenance fails with PalletMaintenance   *)
(* and adds no occupant; no occupy and no release takes a pallet out of    *)
(* maintenance.                                                            *)
Cex_C7_MaintenanceRefusesOccupy ==
  [][/\ (/\ last'.op = "occupy"
          /\ machine.status = ONLINE
          /\ IdxOf(machine, last'.key) # 0
          /\ machine.pallets[IdxOf(machine, last'.key)].status = MAINTENANCE)
         => (last'.result = "PalletMaintenance" /\ machine' = machine)
     /\ (last'.op \in Releases \cup {"occupy"})
         => \A i \in DOMAIN machine.pallets :
              machine.pallets[i].status = MAINTENANCE
              => machine'.pallets[i].status = MAINTENANCE]_vars

(* C8: on a two-wheeler machine an occupy without a position hint puts    *)
(* the new occupant on the lowest position of 1..6 that no occupant of the *)
(* pallet holds.                                                           *)
Thm_C8_LowestFreePosition ==
  [][(/\ last'.op = "occupy"
      /\ last'.result = "ok"
      /\ last'.hint = 0
      /\ machine.machineType = "two-wheeler")
     => LET before == machine.pallets[IdxOf(machine, last'.key)].currentBookings
            after == machine'.pallets[IdxOf(machine', last'.key)].currentBookings
            held == {before[j].position : j \in DOMAIN before}
            p == after[Len(after)].position
        IN /\ Len(after) = Len(before) + 1
           /\ p \in (1..6) \ held
           /\ \A q \in (1..6) \ held : p <= q]_vars

(* six occupies took positions 1..6 in order, the occupant at position 3   *)
(* was released and the next occupy has just taken position 3             *)
Wit_C8_RefillsPositionThree ==
  /\ last.op = "occupy"
  /\ last.result = "ok"
  /\ last.hint = 0
  /\ Len(last.pre.currentBookings) = 5
  /\ [j \in 1..5 |-> last.pre.currentBookings[j].position] = <<1, 2, 4, 5, 6>>
  /\ LET now == machine.pallets[IdxOf(machine, last.key)].currentBookings
     IN [j \in 1..Len(now) |-> now[j].position] = <<1, 2, 4, 5, 6, 3>>

(* C9: an occupy that succeeds, followed at once by the release of the     *)
(* same booking - or of the same vehicle when the pallet held that vehicle *)
(* for no other booking - leaves the pallet with the status, the           *)
(* currentOccupancy and the occupant list it had before the occupy.        *)
(* Stated for the pre-states where nothing else interferes: the pallet was *)
(* available and did not hold the booking yet.                             *)
PalletView(pallet) ==
  [status |-> pallet.status,
   currentOccupancy |-> pallet.currentOccupancy,
   currentBookings |-> pallet.currentBookings]

Cex_C9_OccupyThenReleaseRestores ==
  [][(/\ last.op = "occupy"
      /\ last.result = "ok"
      /\ last.pre.status = AVAILABLE
      /\ \A j \in DOMAIN last.pre.currentBookings :
           last.pre.currentBookings[j].booking # last.booking
      /\ last'.result = "ok"
      /\ last'.key = last.key
      /\ \/ last'.op = "release" /\ last'.booking = last.booking
         \/ /\ last'.op = "releaseVehicle"
            /\ last'.plate = last.plate
            /\ \A j \in DOMAIN last.pre.currentBookings :
                 last.pre.currentBookings[j].vehicleNumber # last.plate)
     => PalletView(machine'.pallets[IdxOf(machine', last'.key)])
          = PalletView(last.pre)]_vars

(* C10: whatever the interleaving of concurrent occupy and release        *)
(* requests on one pallet, once they have all returned the machine is in   *)
(* the state some serial order of those requests leaves it in.             *)
RECURSIVE SerialFrom(_, _, _)
SerialFrom(m, reqs, rest) ==
  IF rest = {} THEN {m}
  ELSE UNION {SerialFrom(serve(m, reqs[i]).machine, reqs, rest \ {i}) :
                i \in rest}

Cex_C10_Serializable ==
  (NoneLoaded /\ batch # NoBatch)
  => machine \in SerialFrom(batch.base, batch.reqs, DOMAIN batch.reqs)

(* C11: a booking's status changes only from active to completed or to   *)
(* cancelled; completing a booking that is not active and cancelling a     *)
(* completed or cancelled booking fail with IllegalTransition and change   *)
(* nothing; a completed or cancelled booking keeps its status under every  *)
(* operation.                                                              *)
Terminal == {COMPLETED, CANCELLED}

Thm_C11_StatusTransitions ==
  [][\A id \in DOMAIN bookingDocs :
       LET b == bookingDocs[id]
       IN b.stored =>
            /\ id \in DOMAIN bookingDocs'
            /\ b.status \in Terminal =>
                 bookingDocs'[id].stored /\ bookingDocs'[id].status = b.status
            /\ bookingDocs'[id].status # b.status =>
                 b.status = ACTIVE /\ bookingDocs'[id].status \in Terminal
            /\ (breq' # breq /\ breq'.op = "complete" /\ breq'.id = id
                /\ b.status # ACTIVE) =>
                 breq'.result = "IllegalTransition" /\ bookingDocs' = bookingDocs
            /\ (breq' # breq /\ breq'.op = "cancel" /\ breq'.id = id
                /\ b.status \in Terminal) =>
                 breq'.result = "IllegalTransition" /\ bookingDocs' = bookingDocs
    ]_vars

(* a completed booking refused a cancel *)
Wit_C11_CancelOfCompletedRefused ==
  /\ breq.op = "cancel"
  /\ breq.result = "IllegalTransition"
  /\ breq.id \in DOMAIN bookingDocs
  /\ bookingDocs[breq.id].status = COMPLETED

(* C12: CancelBooking on an active booking that occupies a pallet leaves *)
(* the booking cancelled with the reason in its notes and the pallet       *)
(* without that occupant.                                                  *)
OccupiesPallet(m, id) ==
  \E i \in DOMAIN m.pallets :
    \E j \in DOMAIN m.pallets[i].currentBookings :
      m.pallets[i].currentBookings[j].booking = id

NotesContain(b, reason) ==
  reason = "" \/ \E k \in DOMAIN b.notes : b.notes[k] = reason

Cex_C12_CancelReleasesPallet ==
  [][(/\ breq' # breq
      /\ breq'.op = "cancel"
      /\ breq'.pre.status = ACTIVE
      /\ OccupiesPallet(machine, breq'.id))
     => /\ bookingDocs'[breq'.id].stored
        /\ bookingDocs'[breq'.id].status = CANCELLED
        /\ NotesContain(bookingDocs'[breq'.id], breq'.reason)
        /\ ~OccupiesPallet(machine', breq'.id)]_vars

(* C13: CreateBooking with a well-formed machine code and any pallet     *)
(* number >= 1 persists an active booking, whatever the machine answers,   *)
(* and GetBookingsByMachine for that code returns it.                      *)
Cex_C13_CreatePersistsWhateverThePallet ==
  [][(/\ breq' # breq
      /\ breq'.op = "create"
      /\ breq'.machineNumber \in MachineNumbers
      /\ breq'.palletNumber >= 1)
     => /\ breq'.result = "ok"
        /\ bookingDocs' = Append(bookingDocs, bookingDocs'[breq'.id])
        /\ bookingDocs'[breq'.id].status = ACTIVE
        /\ breq'.id \in getBookingsByMachine(bookingDocs', breq'.machineNumber,
                                             ACTIVE)]_vars


(* the booking breq.id went from active to completed or cancelled in this  *)
(* step                                                                    *)
BecameTerminal ==
  /\ breq'.id \in DOMAIN bookingDocs
  /\ bookingDocs[breq'.id].stored
  /\ bookingDocs[breq'.id].status = ACTIVE
  /\ bookingDocs'[breq'.id].status \in Terminal

Cex_C15_CodeRedeemsItsBooking ==
  [][(breq' # breq /\ breq'.op = "verifyOTP") =>
       /\ \A id \in findByOTP(bookingDocs, breq'.code, clock) :
            /\ breq'.result = "ok"
            /\ breq'.id = id
            /\ bookingDocs'[id].otp.isUsed
            /\ bookingDocs'[id].status = bookingDocs[id].status
       /\ findByOTP(bookingDocs, breq'.code, clock) = {} =>
            breq'.result = "InvalidOrExpiredOTP" /\ bookingDocs' = bookingDocs
       /\ findByOTP(bookingDocs', breq'.code, clock') = {}]_vars


(* the active bookings holding the unused code *)
UnusedHolders(docs, otpCode) ==
  {i \in DOMAIN docs :
     /\ docs[i].stored /\ docs[i].status = ACTIVE
     /\ docs[i].otp.code = otpCode /\ ~docs[i].otp.isUsed}

(* C16: every OTP expires 30 minutes after it was issued; VerifyOTP of an   *)
(* unused code of an active booking succeeds at every time strictly before *)
(* the issue time plus 30 minutes and fails with InvalidOrExpiredOTP,       *)
(* changing nothing, from that time on; the passing of time changes no      *)
(* booking.                                                                 *)
Thm_C16_OtpExpiresAfterThirtyMinutes ==
  [][/\ \A i \in DOMAIN bookingDocs :
          bookingDocs[i].otp.expiresAt
            = bookingDocs[i].otp.generatedAt + OtpExpiryMinutes
     /\ clock' # clock => bookingDocs' = bookingDocs
     /\ (breq' # breq /\ breq'.op = "verifyOTP") =>
          LET holders == UnusedHolders(bookingDocs, breq'.code)
              fresh == {i \in holders :
                          clock < bookingDocs[i].otp.generatedAt
                                    + OtpExpiryMinutes}
          IN /\ fresh # {} =>
                  /\ breq'.result = "ok"
                  /\ breq'.id \in fresh
                  /\ bookingDocs'[breq'.id].otp.isUsed
                  /\ bookingDocs'[breq'.id].otp.usedAt = clock
             /\ fresh = {} =>
                  /\ breq'.result = "InvalidOrExpiredOTP"
                  /\ bookingDocs' = bookingDocs]_vars

(* one code was redeemed in the last minute before its expiry, another was *)
(* refused at the minute of its expiry                                     *)
Wit_C16_AcceptedBeforeRefusedAtExpiry ==
  /\ \E i \in DOMAIN bookingDocs :
       /\ bookingDocs[i].otp.isUsed
       /\ bookingDocs[i].otp.usedAt
            = bookingDocs[i].otp.generatedAt + OtpExpiryMinutes - 1
  /\ breq.op = "verifyOTP" /\ breq.result = "InvalidOrExpiredOTP"
  /\ \E i \in UnusedHolders(bookingDocs, breq.code) :
       clock = bookingDocs[i].otp.generatedAt + OtpExpiryMinutes


(* C17: a VerifyOTP request that succeeds consumes an OTP that is unused in *)
(* the store at the moment it is consumed, so that of two concurrent        *)
(* requests with the same code at most one succeeds.                        *)
Cex_C17_ConsumedOnlyWhileUnused ==
  [][(nSaves' = nSaves + 1 /\ breq'.op = "verifyOTP" /\ breq'.result = "ok") =>
       ~bookingDocs[breq'.id].otp.isUsed]_vars


(* C18: at any time and for every code at most one active booking holds    *)
(* the code unused and unexpired, so that Booking.findByOTP has at most one *)
(* document to return.                                                      *)
Cex_C18_OneBookingPerCode ==
  \A otpCode \in OtpCodes :
    Cardinality(findByOTP(bookingDocs, otpCode, clock)) <= 1


(* C19: CompleteBooking of an active booking with a payment leaves the      *)
(* booking completed with endTime and completedBy set and its payment       *)
(* completed, paid at the completion, with the amount and the method of the *)
(* request, whatever the amount.                                            *)
Cex_C19_PaymentRecordedWhateverTheAmount ==
  [][(breq' # breq /\ breq'.op = "complete" /\ breq'.pre.status = ACTIVE
        /\ breq'.reason # "") =>
       LET b == bookingDocs'[breq'.id]
       IN /\ b.status = COMPLETED
          /\ b.endTime = SET
          /\ b.completedBy # NULL
          /\ b.payment.status = COMPLETED
          /\ b.payment.amount = breq'.amount
          /\ b.payment.method = breq'.reason
          /\ b.payment.paidAt = SET]_vars


(* C20: no two active customers share a phone number; CreateCustomer with a *)
(* phone of no active customer succeeds and stores an active customer with  *)
(* that phone, also when an inactive customer has the phone; with the phone *)
(* of an active customer it is rejected as a duplicate and stores nothing.  *)
Cex_C20_PhoneUniqueAmongActive ==
  [][/\ \A i, j \in DOMAIN customerDocs :
          (/\ customerDocs[i].status = ACTIVE /\ customerDocs[j].status = ACTIVE
           /\ customerDocs[i].phoneNumber = customerDocs[j].phoneNumber) => i = j
     /\ (breq' # breq /\ breq'.op = "createCustomer") =>
          IF findActiveCustomer(customerDocs, breq'.phone) = 0
          THEN /\ breq'.result = "ok"
               /\ Len(customerDocs') = Len(customerDocs) + 1
               /\ customerDocs'[breq'.id].status = ACTIVE
               /\ customerDocs'[breq'.id].phoneNumber = breq'.phone
          ELSE /\ breq'.result = "DuplicatePhone"
               /\ customerDocs' = customerDocs]_vars


(* C21: in every state the active vehicles of a customer have pairwise      *)
(* distinct plates and every plate is stored in upper case.                 *)
Cex_C21_DistinctActivePlates ==
  \A c \in DOMAIN customerDocs :
    LET vs == customerDocs[c].vehicles
    IN /\ \A i \in DOMAIN vs :
            vs[i].vehicleNumber = toUpperCase(vs[i].vehicleNumber)
       /\ \A i, j \in DOMAIN vs :
            (/\ vs[i].isActive /\ vs[j].isActive
             /\ vs[i].vehicleNumber = vs[j].vehicleNumber) => i = j


(* C22: deleting an active customer who has an active booking is refused    *)
(* and changes no customer; deleting an active customer who has none makes  *)
(* the customer inactive, sets deletedAt and stores the reason of the       *)
(* request; every active booking refers to an active customer.              *)
Thm_C22_SoftDeleteGuardsActiveBookings ==
  [][/\ \A i \in DOMAIN bookingDocs :
          (bookingDocs[i].stored /\ bookingDocs[i].status = ACTIVE) =>
            /\ bookingDocs[i].customer \in DOMAIN customerDocs
            /\ customerDocs[bookingDocs[i].customer].status = ACTIVE
     /\ (/\ breq' # breq /\ breq'.op = "deleteCustomer"
         /\ breq'.id \in DOMAIN customerDocs
         /\ customerDocs[breq'.id].status = ACTIVE) =>
          IF \E i \in DOMAIN bookingDocs :
               /\ bookingDocs[i].stored /\ bookingDocs[i].status = ACTIVE
               /\ bookingDocs[i].customer = breq'.id
          THEN /\ breq'.result = "HasActiveBookings"
               /\ customerDocs' = customerDocs
          ELSE /\ breq'.result = "ok"
               /\ customerDocs'[breq'.id].status = "inactive"
               /\ customerDocs'[breq'.id].deletedAt = SET
               /\ breq'.reason # "" =>
                    customerDocs'[breq'.id].deletionReason = breq'.reason
               /\ \A c \in DOMAIN customerDocs :
                    c # breq'.id => customerDocs'[c] = customerDocs[c]]_vars

(* one customer was soft deleted with a reason, the delete of another,     *)
(* who has an active booking, was refused                                  *)
Wit_C22_DeletedOneRefusedOther ==
  /\ breq.op = "deleteCustomer" /\ breq.result = "HasActiveBookings"
  /\ customerDocs[breq.id].status = ACTIVE
  /\ \E c \in DOMAIN customerDocs :
       /\ customerDocs[c].status = "inactive"
       /\ customerDocs[c].deletedAt = SET
       /\ customerDocs[c].deletionReason = "moved away"

Cex_C23_ValidatesExactlyTheCoveringMembership ==
  [][(breq'.op = "validateMembership" /\ breq' # breq)
     => (breq'.result = "ok"
         <=> \E i \in DOMAIN customerDocs :
               /\ customerDocs[i].status = ACTIVE
               /\ customerDocs[i].membership.membershipNumber
                    = breq'.membershipNumber
               /\ customerDocs[i].membership.pin = breq'.pin
               /\ customerDocs[i].membership.isActive
               /\ customerDocs[i].membership.expiryDate > clock
               /\ (breq'.vehicleType = ""
                   \/ breq'.vehicleType
                        \in customerDocs[i].membership.vehicleTypes))
  ]_vars

(* C25: no two customers hold active memberships with the same number.     *)
Cex_C25_ActiveNumbersDistinct ==
  \A i, j \in DOMAIN customerDocs :
    (i # j /\ customerDocs[i].membership.isActive
           /\ customerDocs[j].membership.isActive)
    => customerDocs[i].membership.membershipNumber
         # customerDocs[j].membership.membershipNumber

(* C30: a DeactivateMachine request on a machine with an occupant on some  *)
(* pallet fails with a 400-class error and leaves the machine as it was;   *)
(* on a machine without occupants it succeeds and the machine is offline.  *)
Cex_C30_DeactivateRefusedWithIllegalTransition ==
  [][(last'.op = "deactivate" /\ (last' # last \/ nSaves' # nSaves))
     => IF totalOccupants(machine) > 0
        THEN /\ last'.result # "ok"
             /\ last'.statusCode \in 400..499
             /\ machine' = machine
        ELSE /\ last'.result = "ok"
             /\ machine'.status = OFFLINE
  ]_vars

(* the sites a user is assigned to, with the primary site *)
SitesOf(user) ==
  {user.assignedSites[i].site : i \in DOMAIN user.assignedSites}
    \cup (IF user.primarySite = 0 THEN {} ELSE {user.primarySite})

HasSiteRole(user, id, roles) ==
  \E i \in DOMAIN user.assignedSites :
    user.assignedSites[i].site = id /\ user.assignedSites[i].role \in roles

Cex_C27_PalletOperationsAreSiteScoped ==
  [][(breq'.op = "occupyPallet"
      /\ (breq' # breq \/ nSaves' # nSaves)
      /\ breq'.user \in DOMAIN userDocs
      /\ breq'.id \in DOMAIN machineDocs
      /\ machineDocs[breq'.id].stored
      /\ userDocs[breq'.user].role # "admin"
      /\ machineDocs[breq'.id].siteId \notin SitesOf(userDocs[breq'.user]))
     => (breq'.result = "Forbidden" /\ machineDocs' = machineDocs)
  ]_vars

Thm_C33_FailedRequestChangesNothing ==
  [][(/\ last'.op \in Releases \cup {"occupy"}
      /\ last'.result # "ok")
     => /\ machine'.pallets = machine.pallets
        /\ machine'.capacity = machine.capacity]_vars

(* an occupy was just refused by an offline machine that still holds the  *)
(* one occupant it held before                                             *)
Wit_C33_RefusedWhileOccupantsStay ==
  /\ last.op = "occupy"
  /\ last.result = "MachineOffline"
  /\ machine.status = OFFLINE
  /\ totalOccupants(machine) = 1

(* C34: a maintenance request puts the pallet in maintenance whatever its  *)
(* occupancy and leaves its occupants and its occupancy count alone; a     *)
(* release of an occupant of a pallet in maintenance leaves the pallet in  *)
(* maintenance.                                                            *)
Cex_C34_MaintenanceSurvivesRelease ==
  [][/\ (last'.op = "maintenance" /\ last'.result = "ok")
         => LET i == IdxOf(machine, last'.key)
            IN /\ machine'.pallets[i].status = MAINTENANCE
               /\ machine'.pallets[i].currentBookings
                    = machine.pallets[i].currentBookings
               /\ machine'.pallets[i].currentOccupancy
                    = machine.pallets[i].currentOccupancy
     /\ (last'.op \in Releases /\ last'.result = "ok"
         /\ machine.pallets[IdxOf(machine, last'.key)].status = MAINTENANCE)
         => machine'.pallets[IdxOf(machine, last'.key)].status = MAINTENANCE
  ]_vars

----------------------------------------------------------------------------
(* Creation of machines of every declared size.  new Machine({capacity:    *)
(* {total}}) without pallets is saved once; validation runs before the     *)
(* pre('save') hook, so the pallets the hook generates are stored as they  *)
(* are.  The requests that follow work on the stored document.             *)

MaxTotal == 5
MaxCreateSaves == 1

InitCreate ==
  /\ \E t \in MachineTypes, k \in ParkingTypes, total \in 1..MaxTotal :
       machine = createMachine(t, k, total)
  /\ last = NoRequest
  /\ nSaves = 0
  /\ inflight = [w \in Workers |-> Idle]
  /\ batch = NoBatch
  /\ EmptyStores

CreateOccupy == OccupyPallet /\ nSaves' <= MaxCreateSaves
CreateMaintain == SetPalletMaintenance /\ nSaves' <= MaxCreateSaves

NextCreate ==
  \/ CreateOccupy
  \/ CreateMaintain

SpecCreate == InitCreate /\ [][NextCreate]_vars

Thm_C36_RegeneratedOtpReplacesTheOld ==
  [][/\ ((breq' # breq \/ nSaves' # nSaves) /\ breq'.op = "generateNewOTP")
         => /\ breq'.result = "ok"
                 => /\ bookingDocs[breq'.id].stored
                    /\ bookingDocs[breq'.id].status = ACTIVE
                    /\ bookingDocs'[breq'.id].status = ACTIVE
                    /\ bookingDocs'[breq'.id].otp
                         = [code |-> breq'.code, generatedAt |-> clock,
                            expiresAt |-> clock + 30, isUsed |-> FALSE,
                            usedAt |-> -1]
            /\ breq'.result # "ok" => bookingDocs' = bookingDocs
            /\ (breq'.id \in DOMAIN bookingDocs
                /\ bookingDocs[breq'.id].stored
                /\ bookingDocs[breq'.id].status # ACTIVE)
                 => breq'.result = "IllegalTransition"
     /\ ((breq' # breq \/ nSaves' # nSaves) /\ breq'.op = "verifyOTP"
          /\ breq'.result = "ok")
         => bookingDocs[breq'.id].otp.code = breq'.code]_vars

(* the consumed code of an active booking was just replaced by a different *)
(* code, which the booking holds unused                                    *)
Wit_C36_ConsumedCodeReplaced ==
  /\ breq.op = "generateNewOTP"
  /\ breq.result = "ok"
  /\ breq.pre.otp.isUsed
  /\ breq.pre.otp.code # breq.code
  /\ bookingDocs[breq.id].otp.code = breq.code
  /\ ~bookingDocs[breq.id].otp.isUsed

----------------------------------------------------------------------------
(* Names: bookings of one phone number created under the names of          *)
(* CustomerNames, while the customer is renamed or soft deleted, the       *)
(* booking updated or completed and the machine changed.                   *)

MaxNameSaves == 3

NameCreate ==
  \E name \in CustomerNames :
    /\ CreateBookingAs(<<"9000000001", "ka01">>, name, "M001", 1, "100000")
    /\ nSaves' <= MaxNameSaves
NameUpdateCustomer ==
  \E cid \in 1..MaxBookings, firstName \in {"Ravi"} :
    UpdateCustomer(cid, firstName, <<"Rao">>) /\ nSaves' <= MaxNameSaves
NameDeleteCustomer ==
  \E cid \in 1..MaxBookings :
    DeleteCustomer(cid, "") /\ nSaves' <= MaxNameSaves
NameUpdateBooking ==
  \E id \in 1..MaxBookings : UpdateBooking(id) /\ nSaves' <= MaxNameSaves
NameComplete ==
  \E id \in 1..MaxBookings :
    CompleteBooking(id, NoPayment, TRUE) /\ nSaves' <= MaxNameSaves
NameMachine == UpdateMachine /\ nSaves' <= MaxNameSaves

NextName ==
  \/ NameCreate
  \/ NameUpdateCustomer
  \/ NameDeleteCustomer
  \/ NameUpdateBooking
  \/ NameComplete
  \/ NameMachine

SpecName == InitMem /\ [][NextName]_vars

(* C37: no step changes the customerName, phoneNumber, machineNumber or    *)
(* palletNumber of a stored booking: not a later create that renames the   *)
(* customer, not a customer update or soft delete, not a booking update or *)
(* completion, not a change of the machine.                                *)
Thm_C37_BookingHoldsValues ==
  [][\A i \in DOMAIN bookingDocs :
       bookingDocs[i].stored
         => /\ i \in DOMAIN bookingDocs'
            /\ bookingDocs'[i].stored
            /\ bookingDocs'[i].customerName = bookingDocs[i].customerName
            /\ bookingDocs'[i].phoneNumber = bookingDocs[i].phoneNumber
            /\ bookingDocs'[i].machineNumber = bookingDocs[i].machineNumber
            /\ bookingDocs'[i].palletNumber = bookingDocs[i].palletNumber]_vars

(* the first booking still holds the name it was created under, after a    *)
(* second create renamed its customer and a booking update went through    *)
Wit_C37_RenamedAfterBooking ==
  /\ Len(bookingDocs) = 2
  /\ bookingDocs[1].customer = bookingDocs[2].customer
  /\ bookingDocs[1].customerName = <<"Asha", "Rao">>
  /\ bookingDocs[2].customerName = <<"Ravi", "Rao">>
  /\ fullName(customerDocs[bookingDocs[1].customer]) = <<"Ravi", "Rao">>
  /\ bookingDocs[1].notes = <<"note">>

(* C39: a create for an existing customer that follows a successful create *)
(* with the same phone and the same customerName reports                   *)
(* customerNameUpdated = false and leaves the stored name as it was.       *)
Cex_C39_SameNameIsNoUpdate ==
  [][(/\ breq'.op = "create" /\ breq'.result = "ok"
      /\ Len(bookingDocs') = Len(bookingDocs) + 1
      /\ breq.op = "create" /\ breq.result = "ok"
      /\ breq'.phone = breq.phone
      /\ breq'.customerName = breq.customerName)
     => LET c == findActiveCustomer(customerDocs, breq'.phone)
        IN /\ c # 0
           /\ ~breq'.customerNameUpdated
           /\ customerDocs'[c].firstName = customerDocs[c].firstName
           /\ customerDocs'[c].lastName = customerDocs[c].lastName]_vars

----------------------------------------------------------------------------
(* The availability query.  The machine of the model stands at site        *)
(* MachineSiteId; siteId 0 is a query without a site.                      *)

MachineSiteId == 1
SiteInputs == {0, 1, 2}

(* Machine.findAvailable(vehicleType, siteId): the filter of the query *)
findAvailable(m, vehicleType, siteId) ==
  /\ m.status = ONLINE
  /\ m.capacity.available > 0
  /\ m.machineType = vehicleType
  /\ vehicleType \in m.supportedVehicleTypes
  /\ siteId # 0 => MachineSiteId = siteId

(* machine.findAvailablePallet(vehicleType): the number of the first       *)
(* pallet with room that is not in maintenance; 0 stands for null          *)
findAvailablePallet(m, vehicleType) ==
  LET withRoom == {i \in DOMAIN m.pallets :
                     /\ m.pallets[i].status # MAINTENANCE
                     /\ m.pallets[i].currentOccupancy
                          < m.pallets[i].vehicleCapacity}
  IN IF vehicleType \notin m.supportedVehicleTypes THEN 0
     ELSE IF m.machineType # vehicleType THEN 0
     ELSE IF withRoom = {} THEN 0
     ELSE m.pallets[firstIndex(withRoom)].number

(* MachineService.getAvailableMachines for the machine of the model: the   *)
(* pallet reported with the machine, 0 when the machine is not returned    *)
getAvailableMachines(m, vehicleType, siteId) ==
  IF findAvailable(m, vehicleType, siteId)
  THEN findAvailablePallet(m, vehicleType)
  ELSE 0

FindAvailableMachines ==
  \E vehicleType \in MachineTypes, siteId \in SiteInputs :
    LET p == getAvailableMachines(machine, vehicleType, siteId)
    IN /\ last' = [NoRequest EXCEPT
                     !.op = "findAvailable", !.key = p,
                     !.vehicleType = vehicleType, !.siteId = siteId,
                     !.returned = p # 0]
       /\ UNCHANGED <<machine, nSaves, inflight, batch>>
       /\ UNCHANGED bookVars

NextAvail ==
  \/ OccupyPallet
  \/ ReleasePalletByBooking
  \/ SetPalletMaintenance
  \/ UpdateMachine
  \/ FindAvailableMachines

SpecAvail == Init /\ [][NextAvail]_vars

(* C38: a machine the availability query returns is online, of the type    *)
(* and at the site asked for, and is reported with a pallet that accepts   *)
(* an occupy made right after; and an online machine of the type and site  *)
(* asked for is returned whenever one of its pallets is not in maintenance *)
(* and holds fewer vehicles than its capacity.                             *)
Cex_C38_AvailableMachinesExactly ==
  [][(last'.op = "findAvailable")
     => /\ last'.returned
             => /\ machine.status = ONLINE
                /\ machine.machineType = last'.vehicleType
                /\ last'.siteId \in {0, MachineSiteId}
                /\ serviceOccupyPallet(machine, last'.key, 1, "ka01", 0).error
                     = "ok"
        /\ (/\ machine.status = ONLINE
            /\ machine.machineType = last'.vehicleType
            /\ last'.siteId \in {0, MachineSiteId}
            /\ \E i \in DOMAIN machine.pallets :
                 /\ machine.pallets[i].status # MAINTENANCE
                 /\ machine.pallets[i].currentOccupancy
                      < machine.pallets[i].vehicleCapacity)
             => last'.returned]_vars

----------------------------------------------------------------------------
(* Login, token refresh and logout of one registered operator.  The log of *)
(* the requests numbers them (seq) and carries the refresh tokens the      *)
(* responses have handed to the client so far (held): a client presents    *)
(* only tokens it was given.  bcrypt's comparison of the password takes    *)
(* time, CompareMs at the least, so the clock that incrementLoginAttempts  *)
(* and the token stamps read is later than the clock of the lock check.    *)
MaxAuthRequests == 7
MaxSeconds == 2
CompareMs == 1

(* the response of a request of the identity provider: its status, the     *)
(* refresh token the request presented and the one the response carries    *)
AuthResponse(op, status, user, presented, token) ==
  [NoBookingRequest EXCEPT
     !.op = op, !.seq = breq.seq + 1, !.status = status,
     !.result = IF status = 200 THEN "ok" ELSE "error",
     !.user = user, !.presented = presented, !.token = token,
     !.held = IF token = NoToken THEN breq.held ELSE breq.held \cup {token}]

(* AuthService.login: u is the user the operator ID names, Len + 1 when no *)
(* user has it                                                             *)
Login ==
  \E u \in 1..(Len(userDocs) + 1), passwordValid \in BOOLEAN :
    /\ breq.seq < MaxAuthRequests
    /\ IF u \notin DOMAIN userDocs
       THEN /\ breq' = [AuthResponse("login", 401, 0, NoToken, NoToken)
                          EXCEPT !.passwordValid = passwordValid]
            /\ UNCHANGED <<userDocs, clock, nSaves>>
       ELSE IF isLocked(userDocs[u], clock)
       THEN /\ breq' = [AuthResponse("login", 423, u, NoToken, NoToken)
                          EXCEPT !.passwordValid = passwordValid]
            /\ UNCHANGED <<userDocs, clock, nSaves>>
       ELSE IF userDocs[u].status # ACTIVE
       THEN /\ breq' = [AuthResponse("login", 403, u, NoToken, NoToken)
                          EXCEPT !.passwordValid = passwordValid]
            /\ UNCHANGED <<userDocs, clock, nSaves>>
       ELSE IF ~passwordValid
       THEN /\ clock' = clock + CompareMs
            /\ userDocs' =
                 [userDocs EXCEPT
                    ![u] = incrementLoginAttempts(@, clock + CompareMs)]
            /\ breq' = [AuthResponse("login", 401, u, NoToken, NoToken)
                          EXCEPT !.passwordValid = passwordValid]
            /\ UNCHANGED nSaves
       ELSE LET t == clock + CompareMs
                token == generateRefreshToken(u, t)
                user == IF userDocs[u].loginAttempts > 0
                        THEN resetLoginAttempts(userDocs[u])
                        ELSE userDocs[u]
            IN  /\ clock' = t
                /\ userDocs' =
                     [userDocs EXCEPT
                        ![u] = [user EXCEPT
                                  !.refreshToken = token,
                                  !.refreshTokenExpiresAt = dateAfterDays(t, RefreshTtlDays)]]
                /\ nSaves' = nSaves + 1
                /\ breq' = [AuthResponse("login", 200, u, NoToken, token)
                              EXCEPT !.passwordValid = passwordValid]
    /\ UNCHANGED <<machine, last, inflight, batch, bookingDocs, customerDocs,
                   paymentDocs, siteDocs, machineDocs>>

(* AuthService.refreshToken with a token the client holds *)
RefreshToken ==
  \E presented \in breq.held :
    LET message == refreshError(userDocs, presented, clock)
        u == presented.userId
        token == generateRefreshToken(u, clock)
    IN  /\ breq.seq < MaxAuthRequests
        /\ IF message = <<>>
           THEN /\ userDocs' =
                     [userDocs EXCEPT
                        ![u].refreshToken = token,
                        ![u].refreshTokenExpiresAt =
                          dateAfterDays(clock, RefreshTtlDays)]
                /\ nSaves' = nSaves + 1
                /\ breq' = AuthResponse("refresh", 200, u, presented, token)
           ELSE /\ breq' = AuthResponse("refresh", refreshStatus(message), u,
                                        presented, NoToken)
                /\ UNCHANGED <<userDocs, nSaves>>
        /\ UNCHANGED <<machine, last, inflight, batch, bookingDocs,
                       customerDocs, clock, paymentDocs, siteDocs,
                       machineDocs>>

(* AuthService.logout of the authenticated user u *)
Logout ==
  \E u \in DOMAIN userDocs :
    /\ breq.seq < MaxAuthRequests
    /\ userDocs' = [userDocs EXCEPT ![u].refreshToken = NoToken,
                                    ![u].refreshTokenExpiresAt = NoDate]
    /\ nSaves' = nSaves + 1
    /\ breq' = AuthResponse("logout", 200, u, NoToken, NoToken)
    /\ UNCHANGED <<machine, last, inflight, batch, bookingDocs, customerDocs,
                   clock, paymentDocs, siteDocs, machineDocs>>

(* the instants the model lets the clock jump to: the first seconds, and   *)
(* for each lock its last millisecond and the instant it ends              *)
AuthInstants ==
  {s * 1000 : s \in 1..MaxSeconds}
    \cup UNION {{userDocs[u].lockUntil - 1, userDocs[u].lockUntil} :
                  u \in {v \in DOMAIN userDocs : userDocs[v].lockUntil # 0}}

(* time passes between two requests *)
AuthWait ==
  \E t \in AuthInstants :
    /\ t > clock
    /\ clock' = t
    /\ UNCHANGED <<machine, last, nSaves, inflight, batch, orgVars,
                   bookingDocs, customerDocs, breq>>

(* one operator, registered at the instant 0 *)
InitAuth ==
  /\ machine = createMachine("four-wheeler", "rotary", NumPallets)
  /\ last = NoRequest
  /\ nSaves = 0
  /\ inflight = [w \in Workers |-> Idle]
  /\ batch = NoBatch
  /\ bookingDocs = <<>>
  /\ customerDocs = <<>>
  /\ clock = 0
  /\ paymentDocs = <<>>
  /\ siteDocs = <<>>
  /\ machineDocs = <<>>
  /\ userDocs = <<registeredUser("operator", 1, 0)>>
  /\ breq = [NoBookingRequest EXCEPT
               !.op = "register", !.status = 201, !.user = 1,
               !.token = generateRefreshToken(1, 0),
               !.held = {generateRefreshToken(1, 0)}]

NextAuth == Login \/ RefreshToken \/ Logout \/ AuthWait

SpecAuth == InitAuth /\ [][NextAuth]_vars

(* C31: the fifth consecutive failed login locks the account for two       *)
(* hours from that failure, and the counter never passes 5; while the lock *)
(* lasts every login, the one with the correct password too, is refused    *)
(* with 423 and changes nothing; a login with the correct password that is *)
(* not refused as locked succeeds and leaves the counter at 0 with no      *)
(* lock; a failure below the threshold counts one more, and the first      *)
(* failure after a lock has ended leaves the counter at 1 with no lock.    *)
Thm_C31_LockoutAfterFiveFailures ==
  [][/\ \A u \in DOMAIN userDocs' :
          /\ userDocs'[u].loginAttempts <= 5
          /\ userDocs'[u].lockUntil # 0 <=> userDocs'[u].loginAttempts = 5
     /\ (/\ breq'.seq = breq.seq + 1
         /\ breq'.op = "login"
         /\ breq'.user \in DOMAIN userDocs)
          => LET old == userDocs[breq'.user]
                 new == userDocs'[breq'.user]
                 locked == old.lockUntil # 0 /\ clock < old.lockUntil
             IN  /\ locked => breq'.status = 423 /\ new = old
                 /\ (~locked /\ breq'.passwordValid)
                      => /\ breq'.status = 200
                         /\ new.loginAttempts = 0
                         /\ new.lockUntil = 0
                 /\ (~locked /\ ~breq'.passwordValid)
                      => /\ breq'.status = 401
                         /\ new.loginAttempts
                              = IF old.lockUntil # 0 THEN 1
                                ELSE old.loginAttempts + 1
                         /\ new.lockUntil
                              = IF new.loginAttempts = 5
                                THEN clock' + 2 * 60 * 60 * 1000
                                ELSE 0]_vars

(* after five failures the login with the correct password is refused in   *)
(* the last millisecond of the lock                                        *)
Wit_C31_CorrectPasswordRefusedWhileLocked ==
  /\ breq.op = "login"
  /\ breq.passwordValid
  /\ breq.status = 423
  /\ userDocs[1].loginAttempts = 5
  /\ clock = userDocs[1].lockUntil - 1

(* C32: of the refresh tokens handed to the client at most one is          *)
(* accepted at any time; after a successful refresh the token it presented *)
(* is refused, after a logout every token handed out so far is refused,    *)
(* and every refusal of a token the client was handed is a 401.            *)
Cex_C32_RevokedTokenUnauthorized ==
  [][/\ Cardinality({token \in breq'.held :
                       refreshError(userDocs', token, clock') = <<>>}) <= 1
     /\ (/\ breq'.seq = breq.seq + 1
         /\ breq'.op = "refresh"
         /\ breq'.status = 200)
          => refreshStatus(refreshError(userDocs', breq'.presented, clock'))
               = 401
     /\ (breq'.seq = breq.seq + 1 /\ breq'.op = "logout")
          => \A token \in breq'.held :
               refreshStatus(refreshError(userDocs', token, clock')) = 401
     /\ (/\ breq'.seq = breq.seq + 1
         /\ breq'.op = "refresh"
         /\ breq'.status # 200)
          => breq'.status = 401]_vars

====
